---- MODULE Spec2Model ----
(***************************************************************************)
(* Model of the Unied editing engine (src/main.c): the line buffer, the    *)
(* undo/redo log, the selection and block operations, the command          *)
(* sequence machine and the key dispatch of editor_process_keypress.       *)
(*                                                                         *)
(* The global `EditorState E` of the program is the variable E, a record   *)
(* with the fields of the struct that the modelled handlers read or write. *)
(* A line is a record [chars, allocated]; its size is Len(chars).  Text is *)
(* a sequence of one-character strings, NL is the newline character.       *)
(* Every handler is an operator from a state record to a state record,     *)
(* and an action of the specification is one keypress handled to the end.  *)
(*                                                                         *)
(* Undefined behaviour of the C code (a row index outside [0, num_lines),  *)
(* a column beyond the terminator, a NULL highlight array or line buffer)  *)
(* is recorded in                                                          *)
(* the field ub: the handler stops there and no further key is processed,  *)
(* because nothing can be said about the process after that point.         *)
(***************************************************************************)
EXTENDS Integers, Sequences, FiniteSets, TLC

VARIABLES E, nkeys, last_key

vars == <<E, nkeys, last_key>>

----------------------------------------------------------------------------
(* Bounds of the model *)

\* longest document, in lines, the model explores
MaxLines == 6
\* longest line, in characters, the model explores
MaxLineLen == 3
\* number of keypresses explored from the initial state, per specification
MaxKeys == 4
MaxHlKeys == 4
MaxCmdKeys == 6
MaxLogKeys == 6
MaxFindKeys == 5
MaxReplaceKeys == 3
\* passes of the inner loop of editor_find_replace that are followed
MaxReplacePasses == 30
MaxNoteKeys == 9
MaxClosedKeys == 4
MaxNoteLineLen == 18
MaxRecentKeys == 4
MaxMemKeys == 4
MaxBlockKeys == 5
\* longest run of typed characters the undo round trip is tried on
MaxTyped == 2
\* rows of the text area of the screen; every line of the model is on it
ScreenRows == 10
\* capacity of the macro table, MAX_MACROS of the source scaled down
MAX_MACROS == 2
\* least capacity of a line buffer, MAX_LINE_LENGTH_BUFFER of the source
\* scaled down so that lines of the model outgrow it
MAX_LINE_LENGTH_BUFFER == 2
\* length of the recent-files list, MAX_RECENT_FILES of the source scaled
\* down
MAX_RECENT_FILES == 2
\* capacity of each history, MAX_UNDO_HISTORY of the source scaled down
MAX_UNDO_HISTORY == 3

(* Program constants *)
COMMAND_TIMEOUT_MS == 1500
MAX_COMMAND_SEQUENCE_LENGTH == 10

\* characters the user types into the document
Alphabet == {"a", "b"}
\* the three quote characters; the backtick is written by its name
SQUOTE == "'"
DQUOTE == "\""
BACKTICK == "backtick"
\* the characters typed into code files: one of each lexical shape
CodeAlphabet == {DQUOTE, "1", "+", "/", "*", "#", "a"}
NL == "\n"
NUL == "\\0"

----------------------------------------------------------------------------
(* Sequence helpers; every index is 0-based as in the C code *)

Min(a, b) == IF a < b THEN a ELSE b
Max(a, b) == IF a > b THEN a ELSE b

\* the first n elements of q
Take(q, n) == SubSeq(q, 1, n)
\* q without its first n elements
Drop(q, n) == SubSeq(q, n + 1, Len(q))
\* q with x inserted so that it gets index at
InsertAt(q, at, x) == Take(q, at) \o <<x>> \o Drop(q, at)
\* q without the element of index at
RemoveAt(q, at) == Take(q, at) \o Drop(q, at + 1)

\* toupper / tolower of <ctype.h>
UpperLetters == <<"A", "B", "C", "D", "E", "F", "G", "H", "I", "J", "K", "L",
                  "M", "N", "O", "P", "Q", "R", "S", "T", "U", "V", "W", "X",
                  "Y", "Z">>
LowerLetters == <<"a", "b", "c", "d", "e", "f", "g", "h", "i", "j", "k", "l",
                  "m", "n", "o", "p", "q", "r", "s", "t", "u", "v", "w", "x",
                  "y", "z">>
toupper(c) ==
    IF \E i \in 1..26 : LowerLetters[i] = c
    THEN UpperLetters[CHOOSE i \in 1..26 : LowerLetters[i] = c] ELSE c
tolower(c) ==
    IF \E i \in 1..26 : UpperLetters[i] = c
    THEN LowerLetters[CHOOSE i \in 1..26 : UpperLetters[i] = c] ELSE c
\* strcasecmp(a, b) == 0
strcasecmp0(a, b) ==
    Len(a) = Len(b) /\ \A i \in 1..Len(a) : tolower(a[i]) = tolower(b[i])

\* index of the first NL of text, or Len(text) when there is none (strchr)
RECURSIVE strchr_nl(_, _)
strchr_nl(text, i) ==
    IF i >= Len(text) THEN Len(text)
    ELSE IF text[i + 1] = NL THEN i
    ELSE strchr_nl(text, i + 1)

----------------------------------------------------------------------------
(* State accessors *)

num_lines(s) == Len(s.lines)
ValidRow(s, y) == y >= 0 /\ y < num_lines(s)
\* E.lines[y].chars and E.lines[y].size for a valid row
chars(s, y) == s.lines[y + 1].chars
size(s, y) == Len(s.lines[y + 1].chars)
allocated(s, y) == s.lines[y + 1].allocated

\* the handler has executed undefined behaviour of kind why
UB(s, why) == IF s.ub = "none" THEN [s EXCEPT !.ub = why] ELSE s
Defined(s) == s.ub = "none"

set_status_message(s, msg) == [s EXCEPT !.status = msg]

\* line y gets the content cs, growing its capacity to need when too small
SetLine(s, y, cs, need, grown) ==
    [s EXCEPT !.lines[y + 1] =
        [chars |-> cs,
         allocated |-> IF need > @.allocated THEN grown ELSE @.allocated]]

----------------------------------------------------------------------------
(* Line buffer *)

\* when the realloc fails, line->chars is overwritten with NULL: the line
\* keeps its size and has no buffer
editor_line_insert_char(s, y, at, c) ==
    IF ~Defined(s) THEN s
    ELSE IF ~ValidRow(s, y) THEN UB(s, "row")
    ELSE IF at < 0 \/ at > size(s, y) THEN s
    ELSE IF size(s, y) + 2 > allocated(s, y) /\ s.alloc_fails
    THEN UB(set_status_message(s, "Error: Failed to reallocate line memory."),
            "null_chars")
    ELSE SetLine(s, y, InsertAt(chars(s, y), at, c), size(s, y) + 2,
                 IF allocated(s, y) = 0 THEN MAX_LINE_LENGTH_BUFFER
                 ELSE allocated(s, y) * 2)

editor_line_delete_char(s, y, at) ==
    IF ~Defined(s) THEN s
    ELSE IF ~ValidRow(s, y) THEN UB(s, "row")
    ELSE IF at < 0 \/ at >= size(s, y) THEN s
    ELSE SetLine(s, y, RemoveAt(chars(s, y), at), 0, 0)

\* editor_insert_line when malloc returns NULL for the new line's buffer:
\* the rows from at on were moved down already and row at has no buffer,
\* num_lines is not incremented (the last row drops out of the document)
LineNotAllocated(s, at) ==
    IF at = num_lines(s)
    THEN set_status_message(s, "Error: Failed to allocate new line memory.")
    ELSE UB([s EXCEPT
                !.lines = Take(InsertAt(@, at,
                                   [chars |-> <<>>,
                                    allocated |-> MAX_LINE_LENGTH_BUFFER]),
                               num_lines(s)),
                !.status = "Error: Failed to allocate new line memory."],
            "null_chars")

\* E.allocated_lines after the growth step of editor_insert_line
GrowLines(s) ==
    [s EXCEPT !.allocated_lines =
                  IF num_lines(s) + 1 > @
                  THEN (IF @ = 0 THEN 16 ELSE @ * 2) ELSE @]

editor_insert_line(s, at, text) ==
    IF ~Defined(s) THEN s
    ELSE IF at < 0 \/ at > num_lines(s) THEN s
    ELSE IF num_lines(s) + 1 > s.allocated_lines /\ s.alloc_fails
    THEN set_status_message(s, "Error: Failed to reallocate lines array.")
    ELSE IF s.alloc_fails
    THEN LineNotAllocated(GrowLines(s), at)
    ELSE [GrowLines(s) EXCEPT
            !.lines = InsertAt(@, at,
                [chars |-> text,
                 allocated |-> IF Len(text) + 1 < MAX_LINE_LENGTH_BUFFER
                               THEN MAX_LINE_LENGTH_BUFFER
                               ELSE Len(text) + 1]),
            !.dirty = TRUE]

editor_delete_line(s, at) ==
    IF ~Defined(s) THEN s
    ELSE IF at < 0 \/ at >= num_lines(s) THEN s
    ELSE [s EXCEPT !.lines = RemoveAt(@, at), !.dirty = TRUE]

\* the join shared by Backspace at column 0, the Delete key at the end of a
\* line and the undo/redo of a split: line y gets line y+1 appended
AppendNextLine(s, y) ==
    IF ~Defined(s) THEN s
    ELSE IF ~ValidRow(s, y) \/ ~ValidRow(s, y + 1) THEN UB(s, "row")
    ELSE SetLine(s, y, chars(s, y) \o chars(s, y + 1),
                 size(s, y) + size(s, y + 1) + 1,
                 allocated(s, y) + size(s, y + 1) + 1)

\* TruncateLine that leaves the line as long as it was
TruncateLine_keep_tail(s, y, x) ==
    IF ~Defined(s) THEN s
    ELSE IF ~ValidRow(s, y) THEN UB(s, "row")
    ELSE s

\* a byte of a line buffer that was never written
INDETERMINATE == "?"

\* line y cut at column x (size = x; chars[x] = '\0'); with x beyond the
\* size the line gets the size x all the same, over bytes that were never
\* written, whatever its capacity
TruncateLine(s, y, x) ==
    IF ~Defined(s) THEN s
    ELSE IF ~ValidRow(s, y) THEN UB(s, "row")
    ELSE IF x < 0 THEN UB(s, "col")
    ELSE IF x > size(s, y)
    THEN UB(SetLine(s, y, chars(s, y) \o
                         [i \in 1..(x - size(s, y)) |-> INDETERMINATE],
                     0, 0), "col")
    ELSE SetLine(s, y, Take(chars(s, y), x), 0, 0)

----------------------------------------------------------------------------
(* Undo/redo log *)

UndoAction(type, y, x, char_val, text_content, text_len, num_lines_affected) ==
    [type |-> type, y |-> y, x |-> x, char_val |-> char_val,
     text_content |-> text_content, text_len |-> text_len,
     num_lines_affected |-> num_lines_affected]

\* a NULL text_content is the empty sequence: no handler tells them apart
NULL == <<>>

clear_redo_history(s) == [s EXCEPT !.redo_history = <<>>]

\* push_undo_action without its call of clear_redo_history
push_undo_action_keep_redo(s, action) ==
    IF ~Defined(s) THEN s
    ELSE [s EXCEPT !.undo_history =
            IF Len(@) = MAX_UNDO_HISTORY
            THEN Append(Tail(@), action)
            ELSE Append(@, action)]

\* push_undo_action making room by dropping the newest entry, not the oldest
push_undo_action_drop_newest(s, action) ==
    IF ~Defined(s) THEN s
    ELSE clear_redo_history(
        [s EXCEPT !.undo_history =
            IF Len(@) = MAX_UNDO_HISTORY
            THEN Append(Take(@, Len(@) - 1), action)
            ELSE Append(@, action)])

push_undo_action(s, action) ==
    IF ~Defined(s) THEN s
    ELSE clear_redo_history(
        [s EXCEPT !.undo_history =
            IF Len(@) = MAX_UNDO_HISTORY
            THEN Append(Tail(@), action)
            ELSE Append(@, action)])

push_redo_action(s, action) ==
    IF ~Defined(s) THEN s
    ELSE [s EXCEPT !.redo_history =
            IF Len(@) = MAX_UNDO_HISTORY
            THEN Append(Tail(@), action)
            ELSE Append(@, action)]

init_undo_redo(s) == [s EXCEPT !.undo_history = <<>>, !.redo_history = <<>>]

----------------------------------------------------------------------------
(* Cursor movement and single-character edits *)

\* the clamp at the end of editor_move_cursor
ClampCursorX(s) ==
    LET line_len == IF s.cursor_y >= num_lines(s) THEN 0
                    ELSE size(s, s.cursor_y)
    IN  IF s.cursor_x > line_len THEN [s EXCEPT !.cursor_x = line_len] ELSE s

editor_move_cursor(s, key) ==
    LET has_line == s.cursor_y < num_lines(s)
        moved ==
          CASE key = "KEY_LEFT" ->
                 IF s.cursor_x > 0 THEN [s EXCEPT !.cursor_x = @ - 1]
                 ELSE IF s.cursor_y > 0
                      THEN IF ValidRow(s, s.cursor_y - 1)
                           THEN [s EXCEPT !.cursor_y = @ - 1,
                                          !.cursor_x = size(s, s.cursor_y - 1)]
                           ELSE UB(s, "row")
                      ELSE s
            [] key = "KEY_RIGHT" ->
                 IF has_line /\ s.cursor_x < size(s, s.cursor_y)
                 THEN [s EXCEPT !.cursor_x = @ + 1]
                 ELSE IF has_line /\ s.cursor_x = size(s, s.cursor_y)
                         /\ s.cursor_y < num_lines(s) - 1
                      THEN [s EXCEPT !.cursor_y = @ + 1, !.cursor_x = 0]
                      ELSE s
            [] key = "KEY_UP" ->
                 IF s.cursor_y > 0 THEN [s EXCEPT !.cursor_y = @ - 1] ELSE s
            [] key = "KEY_DOWN" ->
                 IF s.cursor_y < num_lines(s)
                 THEN [s EXCEPT !.cursor_y = @ + 1] ELSE s
            [] OTHER -> s
    IN  IF ~Defined(moved) THEN moved ELSE ClampCursorX(moved)

editor_insert_char(s, c) ==
    LET ua == UndoAction("UNDO_DELETE_CHAR", s.cursor_y, s.cursor_x, c,
                         NULL, 0, 0)
        s1 == push_undo_action(s, ua)
        \* a line made by editor_insert_line has hl = NULL until the next
        \* refresh, and editor_line_insert_char moves its hl array
        s2 == IF s1.cursor_y = num_lines(s1)
              THEN UB(editor_insert_line(s1, num_lines(s1), <<>>), "null_hl")
              ELSE s1
        s3 == editor_line_insert_char(s2, s2.cursor_y, s2.cursor_x, c)
    IN  IF ~Defined(s3) /\ s3.ub /= "null_chars" THEN s3
        ELSE [s3 EXCEPT !.cursor_x = @ + 1, !.dirty = TRUE]

editor_delete_char(s) ==
    IF s.cursor_y = num_lines(s) THEN s
    ELSE IF s.cursor_x = 0 /\ s.cursor_y = 0 THEN s
    ELSE IF ~ValidRow(s, s.cursor_y) THEN UB(s, "row")
    ELSE IF s.cursor_x > 0
    THEN IF s.cursor_x - 1 > size(s, s.cursor_y) THEN UB(s, "col")
         ELSE
         LET ch == IF s.cursor_x - 1 = size(s, s.cursor_y) THEN NUL
                   ELSE chars(s, s.cursor_y)[s.cursor_x]
             ua == UndoAction("UNDO_INSERT_CHAR", s.cursor_y, s.cursor_x - 1,
                              ch, NULL, 0, 0)
             s1 == push_undo_action(s, ua)
             s2 == editor_line_delete_char(s1, s1.cursor_y, s1.cursor_x - 1)
         IN  [s2 EXCEPT !.cursor_x = @ - 1, !.dirty = TRUE]
    ELSE
         LET prev_line_size == size(s, s.cursor_y - 1)
             ua == UndoAction("UNDO_JOIN_LINES", s.cursor_y - 1,
                              prev_line_size, NUL, chars(s, s.cursor_y),
                              size(s, s.cursor_y), 0)
             s1 == push_undo_action(s, ua)
             s2 == AppendNextLine(s1, s1.cursor_y - 1)
             s3 == editor_delete_line(s2, s2.cursor_y)
         IN  [s3 EXCEPT !.cursor_y = @ - 1, !.dirty = TRUE]

\* the split shared by Enter inside a line and the redo of a split
SplitLine(s, y, x) ==
    IF ~Defined(s) THEN s
    ELSE IF ~ValidRow(s, y) THEN UB(s, "row")
    ELSE IF x < 0 \/ x > size(s, y) THEN UB(s, "col")
    ELSE TruncateLine(editor_insert_line(s, y + 1, Drop(chars(s, y), x)), y, x)

editor_insert_newline(s) ==
    LET s2 ==
          IF s.cursor_x = 0
          THEN editor_insert_line(
                   push_undo_action(s,
                       UndoAction("UNDO_INSERT_EMPTY_LINE", s.cursor_y, 0,
                                  NUL, NULL, 0, 0)),
                   s.cursor_y, <<>>)
          ELSE IF ~ValidRow(s, s.cursor_y) THEN UB(s, "row")
          ELSE IF s.cursor_x > size(s, s.cursor_y) THEN UB(s, "col")
          ELSE LET split_off_content == Drop(chars(s, s.cursor_y), s.cursor_x)
               IN  SplitLine(
                       push_undo_action(s,
                           UndoAction("UNDO_SPLIT_LINE", s.cursor_y,
                                      s.cursor_x, NUL, split_off_content,
                                      Len(split_off_content), 0)),
                       s.cursor_y, s.cursor_x)
    IN  IF ~Defined(s2) THEN s2
        ELSE [s2 EXCEPT !.cursor_y = @ + 1, !.cursor_x = 0, !.dirty = TRUE]

\* case KEY_DC of editor_process_keypress
DeleteKey(s) ==
    IF ~ValidRow(s, s.cursor_y) THEN UB(s, "row")
    ELSE IF s.cursor_x < size(s, s.cursor_y)
    THEN [editor_line_delete_char(s, s.cursor_y, s.cursor_x)
            EXCEPT !.dirty = TRUE]
    ELSE IF s.cursor_y < num_lines(s) - 1
    THEN LET deleted_content == chars(s, s.cursor_y + 1)
             ua == UndoAction("UNDO_JOIN_LINES", s.cursor_y,
                              size(s, s.cursor_y), NUL, deleted_content,
                              Len(deleted_content), 0)
             s1 == push_undo_action(s, ua)
             s2 == AppendNextLine(s1, s1.cursor_y)
             s3 == editor_delete_line(s2, s2.cursor_y + 1)
         IN  IF ~Defined(s3) THEN s3 ELSE [s3 EXCEPT !.dirty = TRUE]
    ELSE s

----------------------------------------------------------------------------
(* Selection and block operations *)

\* the segment loop of editor_insert_text_block: text is what is left of the
\* block, (cy, cx) the position the next segment goes to; the result is the
\* state and the position after the last segment
RECURSIVE InsertSegments(_, _, _, _)
InsertSegments(s, text, cy, cx) ==
    IF ~Defined(s) \/ text = <<>> THEN [st |-> s, y |-> cy, x |-> cx]
    ELSE
      LET nl == strchr_nl(text, 0)
          has_nl == nl < Len(text)
          segment == Take(text, nl)
          segment_len == nl
          s1 == IF cy >= num_lines(s)
                THEN editor_insert_line(s, cy, segment)
                ELSE IF cx > size(s, cy) THEN UB(s, "col")
                ELSE SetLine(s, cy,
                         Take(chars(s, cy), cx) \o segment
                             \o Drop(chars(s, cy), cx),
                         size(s, cy) + segment_len + 1,
                         allocated(s, cy) + segment_len + 1)
      IN  IF has_nl
          THEN InsertSegments(s1, Drop(text, nl + 1), cy + 1, 0)
          ELSE [st |-> s1, y |-> cy, x |-> cx + segment_len]

editor_insert_text_block(s, y, x, text) ==
    IF ~Defined(s) \/ Len(text) = 0 THEN s
    ELSE
      LET has_remainder == y >= 0 /\ y < num_lines(s) /\ x < size(s, y)
          original_line_remainder ==
              IF has_remainder THEN Drop(chars(s, y), x) ELSE <<>>
          s1 == IF has_remainder THEN TruncateLine(s, y, x) ELSE s
          r == InsertSegments(s1, text, y, x)
          s2 == r.st
      IN  IF ~Defined(s2) THEN s2
          ELSE IF Len(original_line_remainder) > 0
          THEN IF r.y >= num_lines(s2)
               THEN editor_insert_line(s2, r.y, original_line_remainder)
               ELSE SetLine(s2, r.y,
                        chars(s2, r.y) \o original_line_remainder,
                        size(s2, r.y) + Len(original_line_remainder) + 1,
                        allocated(s2, r.y) + Len(original_line_remainder) + 1)
          ELSE s2

\* the loop `for (i = 0; i < ey - sy; i++) editor_delete_line(sy + 1)`
RECURSIVE DeleteLines(_, _, _)
DeleteLines(s, at, n) ==
    IF n <= 0 THEN s ELSE DeleteLines(editor_delete_line(s, at), at, n - 1)

editor_delete_text_block(s, sy, sx, ey, ex) ==
    IF ~Defined(s) THEN s
    ELSE IF sy < 0 \/ sy >= num_lines(s) \/ ey < 0 \/ ey >= num_lines(s) THEN s
    ELSE IF sy = ey
    THEN IF sx < 0 \/ sx > size(s, sy) \/ ex < 0 \/ ex > size(s, sy)
         THEN UB(s, "col")
         ELSE SetLine(s, sy, Take(chars(s, sy), sx) \o Drop(chars(s, sy), ex),
                      0, 0)
    ELSE IF sx < 0 \/ sx > size(s, sy) \/ ex < 0 \/ ex > size(s, ey)
    THEN UB(s, "col")
    ELSE LET tail_len == size(s, ey) - ex
             s1 == SetLine(s, sy,
                       Take(chars(s, sy), sx) \o Drop(chars(s, ey), ex),
                       sx + tail_len + 1,
                       allocated(s, sy) + tail_len + 1)
         IN  DeleteLines(s1, sy + 1, ey - sy)

\* get_normalized_selection_coords that always takes the anchor as the start
get_normalized_selection_coords_anchor_first(s) ==
    [sy |-> s.visual_start_y, sx |-> s.visual_start_x,
     ey |-> s.cursor_y, ex |-> s.cursor_x]

\* (sy, sx, ey, ex) of the selection between the anchor and the cursor
get_normalized_selection_coords(s) ==
    IF s.visual_start_y < s.cursor_y
    THEN [sy |-> s.visual_start_y, sx |-> s.visual_start_x,
          ey |-> s.cursor_y, ex |-> s.cursor_x]
    ELSE IF s.visual_start_y > s.cursor_y
    THEN [sy |-> s.cursor_y, sx |-> s.cursor_x,
          ey |-> s.visual_start_y, ex |-> s.visual_start_x]
    ELSE IF s.visual_start_x < s.cursor_x
    THEN [sy |-> s.visual_start_y, sx |-> s.visual_start_x,
          ey |-> s.cursor_y, ex |-> s.cursor_x]
    ELSE [sy |-> s.visual_start_y, sx |-> s.cursor_x,
          ey |-> s.cursor_y, ex |-> s.visual_start_x]

\* the text of rows y..ey of the selection, rows joined by NL
RECURSIVE SelectionRows(_, _, _, _, _, _)
SelectionRows(s, y, sy, sx, ey, ex) ==
    IF y > ey THEN <<>>
    ELSE LET start_col == IF y = sy THEN sx ELSE 0
             end_col0 == IF y = ey THEN ex ELSE size(s, y)
             end_col == IF end_col0 < start_col THEN start_col ELSE end_col0
         IN  SubSeq(chars(s, y), start_col + 1, end_col)
                 \o (IF y < ey THEN <<NL>> ELSE <<>>)
                 \o SelectionRows(s, y + 1, sy, sx, ey, ex)

\* the result of get_selection_content: null = TRUE for a NULL return;
\* stale = TRUE when the copy of the end row reads beyond its terminator
get_selection_content(s, sy, sx, ey, ex) ==
    IF sy < 0 \/ sy >= num_lines(s) \/ ey < 0 \/ ey >= num_lines(s)
    THEN [null |-> TRUE, text |-> <<>>, num_lines |-> 0, stale |-> FALSE]
    ELSE IF ex > size(s, ey) /\ ex > (IF sy = ey THEN sx ELSE 0)
    THEN [null |-> FALSE, text |-> <<>>, num_lines |-> 0, stale |-> TRUE]
    ELSE LET text == SelectionRows(s, sy, sy, sx, ey, ex)
         IN  [null |-> Len(text) = 0, text |-> text,
              num_lines |-> IF ey >= sy THEN ey - sy + 1 ELSE 0,
              stale |-> FALSE]

is_char_in_selection(s, row, col) ==
    IF ~s.visual_mode THEN FALSE
    ELSE LET n == get_normalized_selection_coords(s)
         IN  IF row < n.sy \/ row > n.ey THEN FALSE
             ELSE IF row = n.sy /\ row = n.ey THEN col >= n.sx /\ col < n.ex
             ELSE IF row = n.sy THEN col >= n.sx
             ELSE IF row = n.ey THEN col < n.ex
             ELSE TRUE

editor_toggle_visual_mode(s) ==
    IF ~s.visual_mode
    THEN [s EXCEPT !.visual_mode = TRUE,
                   !.visual_start_x = s.cursor_x,
                   !.visual_start_y = s.cursor_y,
                   !.status = "Visual Mode ON."]
    ELSE [s EXCEPT !.visual_mode = FALSE, !.status = "Visual Mode OFF."]

editor_select_all(s) ==
    IF num_lines(s) = 0 THEN set_status_message(s, "No text to select.")
    ELSE [s EXCEPT !.visual_mode = TRUE,
                   !.visual_start_x = 0,
                   !.visual_start_y = 0,
                   !.cursor_y = num_lines(s) - 1,
                   !.cursor_x = size(s, num_lines(s) - 1),
                   !.status = "All text selected."]

----------------------------------------------------------------------------
(* Clipboard *)

editor_copy_line(s) ==
    IF s.cursor_y >= num_lines(s) THEN set_status_message(s, "Nothing to copy.")
    ELSE [s EXCEPT !.clipboard = chars(s, s.cursor_y),
                   !.status = "Line copied."]

editor_cut_line(s) ==
    IF s.cursor_y >= num_lines(s) THEN set_status_message(s, "Nothing to cut.")
    ELSE
      LET deleted_content == chars(s, s.cursor_y)
          ua == UndoAction("UNDO_DELETE_BLOCK", s.cursor_y, 0, NUL,
                           deleted_content, Len(deleted_content), 1)
          s1 == editor_copy_line(push_undo_action(s, ua))
          s2 == editor_delete_line(s1, s1.cursor_y)
          s3 == IF num_lines(s2) = 0
                THEN editor_insert_line(
                         [s2 EXCEPT !.cursor_y = 0, !.cursor_x = 0], 0, <<>>)
                ELSE IF s2.cursor_y >= num_lines(s2)
                THEN [s2 EXCEPT !.cursor_y = num_lines(s2) - 1,
                                !.cursor_x = size(s2, num_lines(s2) - 1)]
                ELSE s2
      IN  set_status_message(s3, "Line cut.")

editor_copy_selection(s) ==
    IF ~s.visual_mode THEN editor_copy_line(s)
    ELSE
      LET n == get_normalized_selection_coords(s)
          sel == get_selection_content(s, n.sy, n.sx, n.ey, n.ex)
      IN  IF sel.stale THEN UB(s, "col")
          ELSE IF sel.null
          THEN editor_toggle_visual_mode(
                   set_status_message(s, "Empty selection. Nothing copied."))
          ELSE editor_toggle_visual_mode(
                   [s EXCEPT !.clipboard = sel.text,
                             !.status = "Selection copied."])

\* the part of editor_cut_selection and of editor_delete_selection after the
\* copy: record the block, delete it, put the cursor at its start;
\* empty_msg is the report for an empty selection, done_msg the final one
DeleteSelected(s, empty_msg, done_msg) ==
    LET n == get_normalized_selection_coords(s)
        sel == get_selection_content(s, n.sy, n.sx, n.ey, n.ex)
    IN  IF ~Defined(s) THEN s
        ELSE IF sel.stale THEN UB(s, "col")
        ELSE IF sel.null
        THEN editor_toggle_visual_mode(set_status_message(s, empty_msg))
        ELSE
          LET ua == UndoAction("UNDO_DELETE_BLOCK", n.sy, n.sx, NUL,
                               sel.text, Len(sel.text), sel.num_lines)
              s1 == editor_delete_text_block(push_undo_action(s, ua),
                                             n.sy, n.sx, n.ey, n.ex)
          IN  IF ~Defined(s1) THEN s1
              ELSE editor_toggle_visual_mode(
                       [s1 EXCEPT !.cursor_x = n.sx, !.cursor_y = n.sy,
                                  !.dirty = TRUE, !.status = done_msg])

editor_cut_selection(s) ==
    IF ~s.visual_mode THEN editor_cut_line(s)
    ELSE LET s1 == editor_copy_selection(s)
         IN  IF ~Defined(s1) THEN s1
             ELSE DeleteSelected([s1 EXCEPT !.visual_mode = TRUE],
                                 "Empty selection. Nothing cut.",
                                 "Selection cut.")

editor_delete_selection(s) ==
    IF ~s.visual_mode
    THEN set_status_message(s, "No selection to delete.")
    ELSE DeleteSelected(s, "Empty selection. Nothing deleted.",
                        "Selection deleted.")

\* number of NL characters of text
RECURSIVE CountNL(_)
CountNL(text) ==
    IF text = <<>> THEN 0
    ELSE (IF Head(text) = NL THEN 1 ELSE 0) + CountNL(Tail(text))

\* the text after the last NL of text (all of it when there is none)
RECURSIVE LastSegment(_)
LastSegment(text) ==
    LET nl == strchr_nl(text, 0)
    IN  IF nl >= Len(text) THEN text ELSE LastSegment(Drop(text, nl + 1))

editor_paste_line(s) ==
    IF Len(s.clipboard) = 0 THEN set_status_message(s, "Clipboard is empty.")
    ELSE
      LET pasted_num_lines == 1 + CountNL(s.clipboard)
          ua == UndoAction("UNDO_INSERT_BLOCK", s.cursor_y, s.cursor_x, NUL,
                           s.clipboard, Len(s.clipboard), pasted_num_lines)
          s1 == editor_insert_text_block(push_undo_action(s, ua),
                    s.cursor_y, s.cursor_x, s.clipboard)
          final_cursor_y == s.cursor_y + CountNL(s.clipboard)
          final_cursor_x == IF CountNL(s.clipboard) = 0
                            THEN s.cursor_x + Len(s.clipboard)
                            ELSE Len(LastSegment(s.clipboard))
      IN  IF ~Defined(s1) THEN s1
          ELSE [s1 EXCEPT !.cursor_y = final_cursor_y,
                          !.cursor_x = final_cursor_x,
                          !.dirty = TRUE,
                          !.status = "Pasted."]

----------------------------------------------------------------------------
(* Whole-line commands *)

editor_duplicate_line(s) ==
    IF s.cursor_y >= num_lines(s)
    THEN set_status_message(s, "Nothing to duplicate.")
    ELSE LET line == chars(s, s.cursor_y)
             s1 == editor_insert_line(s, s.cursor_y + 1, line)
             ua == UndoAction("UNDO_INSERT_BLOCK", s.cursor_y + 1, 0, NUL,
                              line, Len(line), 1)
         IN  set_status_message(push_undo_action(s1, ua), "Line duplicated.")

\* cs with every character through f (toupper or tolower)
MapCase(cs, to_upper) ==
    [i \in 1..Len(cs) |-> IF to_upper THEN toupper(cs[i]) ELSE tolower(cs[i])]

editor_change_line_case(s, to_upper) ==
    IF s.cursor_y >= num_lines(s)
    THEN set_status_message(s, "Nothing to change case.")
    ELSE LET line == chars(s, s.cursor_y)
             ua == UndoAction("UNDO_MODIFY_LINE_CASE", s.cursor_y, 0, NUL,
                              line, Len(line), 1)
             s1 == push_undo_action(s, ua)
         IN  set_status_message(
                 SetLine(s1, s.cursor_y, MapCase(line, to_upper), 0, 0),
                 IF to_upper THEN "Converted to uppercase."
                 ELSE "Converted to lowercase.")

\* the branch "DL" of execute_command_sequence
DeleteLineCommand(s) ==
    IF num_lines(s) > 1
    THEN IF ~ValidRow(s, s.cursor_y) THEN UB(s, "row")
         ELSE
         LET deleted_content == chars(s, s.cursor_y)
             ua == UndoAction("UNDO_DELETE_BLOCK", s.cursor_y, 0, NUL,
                              deleted_content, Len(deleted_content), 1)
             s1 == editor_delete_line(push_undo_action(s, ua), s.cursor_y)
             s2 == IF s1.cursor_y >= num_lines(s1) /\ num_lines(s1) > 0
                   THEN [s1 EXCEPT !.cursor_y = num_lines(s1) - 1,
                                   !.cursor_x = size(s1, num_lines(s1) - 1)]
                   ELSE IF num_lines(s1) = 0
                   THEN [editor_insert_line(s1, 0, <<>>)
                            EXCEPT !.cursor_y = 0, !.cursor_x = 0]
                   ELSE s1
         IN  set_status_message(s2, "Line deleted.")
    ELSE set_status_message(s, "Cannot delete the last line.")

----------------------------------------------------------------------------
(* Undo and redo *)

\* the end column editor_undo and editor_redo compute for a block action
BlockEndX(a) ==
    IF a.num_lines_affected = 1 THEN a.x + a.text_len
    ELSE Len(LastSegment(a.text_content))

\* content replacement of UNDO_MODIFY_LINE_CASE in editor_undo / editor_redo
ReplaceLineContent(s, a) ==
    IF ~ValidRow(s, a.y) THEN UB(s, "row")
    ELSE [s EXCEPT !.lines[a.y + 1] =
            [chars |-> a.text_content, allocated |-> a.text_len + 1],
          !.cursor_y = a.y, !.cursor_x = a.x]

\* the cursor assignments that end a case of the two switches, not reached
\* when the case's edit was undefined
PlaceCursor(t, y, x) ==
    IF ~Defined(t) THEN t ELSE [t EXCEPT !.cursor_y = y, !.cursor_x = x]

\* case UNDO_INSERT_EMPTY_LINE of editor_undo after the line was deleted
AfterLineDeleted(t, y) ==
    IF num_lines(t) = 0
    THEN [editor_insert_line(t, 0, <<>>) EXCEPT !.cursor_y = 0, !.cursor_x = 0]
    ELSE [t EXCEPT !.cursor_y = IF y >= num_lines(t)
                                THEN num_lines(t) - 1 ELSE y,
                   !.cursor_x = 0]

\* the first switch of editor_undo
UndoApply(s, ua) ==
    CASE ua.type = "UNDO_INSERT_CHAR" ->
           PlaceCursor(editor_line_delete_char(s, ua.y, ua.x),
               ua.y, ua.x)
      [] ua.type = "UNDO_DELETE_CHAR" ->
           PlaceCursor(editor_line_insert_char(s, ua.y, ua.x, ua.char_val),
               ua.y, ua.x + 1)
      [] ua.type = "UNDO_INSERT_EMPTY_LINE" ->
           AfterLineDeleted(editor_delete_line(s, ua.y), ua.y)
      [] ua.type = "UNDO_SPLIT_LINE" ->
           PlaceCursor(editor_delete_line(AppendNextLine(s, ua.y), ua.y + 1),
               ua.y, ua.x)
      [] ua.type = "UNDO_JOIN_LINES" ->
           PlaceCursor(TruncateLine(
                   editor_insert_line(s, ua.y + 1, ua.text_content),
                   ua.y, ua.x),
               ua.y + 1, 0)
      [] ua.type = "UNDO_INSERT_BLOCK" ->
           PlaceCursor(editor_delete_text_block(s, ua.y, ua.x,
                   ua.y + ua.num_lines_affected - 1, BlockEndX(ua)),
               ua.y, ua.x)
      [] ua.type = "UNDO_DELETE_BLOCK" ->
           PlaceCursor(editor_insert_text_block(s, ua.y, ua.x, ua.text_content),
               ua.y, ua.x)
      [] ua.type = "UNDO_MODIFY_LINE_CASE" -> ReplaceLineContent(s, ua)

\* the first switch of editor_redo
RedoApply(s, ra) ==
    CASE ra.type = "UNDO_INSERT_CHAR" ->
           PlaceCursor(editor_line_insert_char(s, ra.y, ra.x, ra.char_val),
               ra.y, ra.x + 1)
      [] ra.type = "UNDO_DELETE_CHAR" ->
           PlaceCursor(editor_line_delete_char(s, ra.y, ra.x),
               ra.y, ra.x)
      [] ra.type = "UNDO_INSERT_EMPTY_LINE" ->
           [editor_insert_line(s, ra.y, <<>>)
               EXCEPT !.cursor_y = ra.y + 1, !.cursor_x = 0]
      [] ra.type = "UNDO_SPLIT_LINE" ->
           PlaceCursor(SplitLine(s, ra.y, ra.x),
               ra.y + 1, 0)
      [] ra.type = "UNDO_JOIN_LINES" ->
           PlaceCursor(editor_delete_line(AppendNextLine(s, ra.y), ra.y + 1),
               ra.y, ra.x)
      [] ra.type = "UNDO_INSERT_BLOCK" ->
           PlaceCursor(editor_insert_text_block(s, ra.y, ra.x, ra.text_content),
               ra.y, ra.x)
      [] ra.type = "UNDO_DELETE_BLOCK" ->
           PlaceCursor(editor_delete_text_block(s, ra.y, ra.x,
                   ra.y + ra.num_lines_affected - 1, BlockEndX(ra)),
               ra.y, ra.x)
      [] ra.type = "UNDO_MODIFY_LINE_CASE" -> ReplaceLineContent(s, ra)

\* the action editor_undo pushes onto the redo history (and editor_redo onto
\* the undo history) for the applied action a: s0 is the state before the
\* action was applied, whose cursor becomes the position of the new action
InverseAction(s0, a) ==
    CASE a.type = "UNDO_INSERT_CHAR" ->
           UndoAction("UNDO_DELETE_CHAR", s0.cursor_y, s0.cursor_x,
                      a.char_val, NULL, a.text_len, a.num_lines_affected)
      [] a.type = "UNDO_DELETE_CHAR" ->
           UndoAction("UNDO_INSERT_CHAR", s0.cursor_y, s0.cursor_x,
                      a.char_val, NULL, a.text_len, a.num_lines_affected)
      [] a.type = "UNDO_INSERT_EMPTY_LINE" ->
           UndoAction(a.type, s0.cursor_y, s0.cursor_x, a.char_val, NULL, 0, 0)
      [] a.type \in {"UNDO_SPLIT_LINE", "UNDO_JOIN_LINES"} ->
           UndoAction(a.type, s0.cursor_y, s0.cursor_x, a.char_val,
                      a.text_content, a.text_len, 0)
      [] a.type \in {"UNDO_INSERT_BLOCK", "UNDO_DELETE_BLOCK"} ->
           UndoAction(a.type, s0.cursor_y, s0.cursor_x, a.char_val,
                      a.text_content, a.text_len, a.num_lines_affected)
      [] a.type = "UNDO_MODIFY_LINE_CASE" ->
           UndoAction(a.type, s0.cursor_y, s0.cursor_x, a.char_val,
                      IF ValidRow(s0, a.y) THEN chars(s0, a.y) ELSE NULL,
                      IF ValidRow(s0, a.y) THEN size(s0, a.y) ELSE 0, 1)

\* the end of editor_undo: the inverse action goes to the redo history
UndoDone(s2, inverse) ==
    IF ~Defined(s2) THEN s2
    ELSE push_redo_action(
             [s2 EXCEPT !.dirty = TRUE, !.status = "Undo successful."],
             inverse)

editor_undo(s) ==
    IF Len(s.undo_history) = 0 THEN set_status_message(s, "Nothing to undo.")
    ELSE LET ua == s.undo_history[Len(s.undo_history)]
             s1 == [s EXCEPT !.undo_history = Take(@, Len(@) - 1)]
         IN  UndoDone(UndoApply(s1, ua), InverseAction(s, ua))

\* the end of editor_redo: the inverse action goes to the undo history
RedoDone(s2, inverse) ==
    IF ~Defined(s2) THEN s2
    ELSE push_undo_action(
             [s2 EXCEPT !.dirty = TRUE, !.status = "Redo successful."],
             inverse)

\* editor_redo that marks the document modified when the log is empty
editor_redo_marks_modified(s) ==
    IF Len(s.redo_history) = 0
    THEN [s EXCEPT !.dirty = TRUE, !.status = "Nothing to redo."]
    ELSE LET ra == s.redo_history[Len(s.redo_history)]
             s1 == [s EXCEPT !.redo_history = Take(@, Len(@) - 1)]
         IN  RedoDone(RedoApply(s1, ra), InverseAction(s, ra))

editor_redo(s) ==
    IF Len(s.redo_history) = 0 THEN set_status_message(s, "Nothing to redo.")
    ELSE LET ra == s.redo_history[Len(s.redo_history)]
             s1 == [s EXCEPT !.redo_history = Take(@, Len(@) - 1)]
         IN  RedoDone(RedoApply(s1, ra), InverseAction(s, ra))

----------------------------------------------------------------------------
(* Highlighter *)

isdigit(c) == c \in {"0", "1", "2", "3", "4", "5", "6", "7", "8", "9"}
isalpha(c) == \E i \in 1..26 : LowerLetters[i] = c \/ UpperLetters[i] = c
isalnum(c) == isdigit(c) \/ isalpha(c)
isxdigit(c) == isdigit(c) \/ tolower(c) \in {"a", "b", "c", "d", "e", "f"}
isspace(c) == c \in {" ", "\t", "\n", "\r"}

\* the character at index i of the line (0-based), the terminator at its end
CharAt(cs, i) == IF i < Len(cs) THEN cs[i + 1] ELSE NUL

is_operator_char(c) ==
    c \in {"+", "-", "*", "/", "%", "=", "<", ">", "!", "&", "|", "^", "~",
           "?", ":", ";", ",", ".", "(", ")", "[", "]", "{", "}"}

is_double_operator(cs, index) ==
    /\ CharAt(cs, index + 1) /= NUL
    /\ <<CharAt(cs, index), CharAt(cs, index + 1)>> \in
         {<<"=", "=">>, <<"!", "=">>, <<"&", "&">>, <<"|", "|">>,
          <<"+", "+">>, <<"-", "-">>, <<"<", "=">>, <<">", "=">>,
          <<"<", "<">>, <<">", ">">>, <<"+", "=">>, <<"-", "=">>,
          <<"*", "=">>, <<"/", "=">>, <<"%", "=">>, <<"&", "=">>,
          <<"|", "=">>, <<"^", "=">>, <<"-", ">">>}

\* hl[k] = tag for from <= k < to (0-based)
SetTags(hl, from, to, tag) ==
    [k \in 1..Len(hl) |-> IF from < k /\ k <= to THEN tag ELSE hl[k]]

\* the index at which the number scan that began at start_num stops
RECURSIVE NumberEnd(_, _, _)
NumberEnd(cs, start_num, i) ==
    IF /\ i < Len(cs)
       /\ \/ isdigit(cs[i + 1])
          \/ cs[i + 1] = "."
          \/ tolower(cs[i + 1]) = "x"
          \/ i > start_num /\ tolower(cs[i]) = "x" /\ isxdigit(cs[i + 1])
          \/ tolower(cs[i + 1]) = "e"
          \/ tolower(cs[i + 1]) = "f"
          \/ i > start_num /\ cs[i] \in {"e", "E"} /\ cs[i + 1] \in {"+", "-"}
    THEN NumberEnd(cs, start_num, i + 1)
    ELSE i

\* the index at which the word scan stops
RECURSIVE WordEnd(_, _)
WordEnd(cs, i) ==
    IF i < Len(cs) /\ (isalnum(cs[i + 1]) \/ cs[i + 1] = "_")
    THEN WordEnd(cs, i + 1)
    ELSE i

\* the main loop of update_highlighting from index i on; st holds hl and
\* the loop's flags
RECURSIVE HighlightFrom(_, _, _)
HighlightFrom(cs, i, st) ==
    IF i >= Len(cs) THEN st
    ELSE
    LET c == cs[i + 1]
        size_ == Len(cs)
    IN
    IF st.in_comment
    THEN IF c = "*" /\ i + 1 < size_ /\ cs[i + 2] = "/"
         THEN HighlightFrom(cs, i + 2,
                  [st EXCEPT !.hl = SetTags(@, i, i + 2, "HL_COMMENT"),
                             !.in_comment = FALSE])
         ELSE HighlightFrom(cs, i + 1,
                  [st EXCEPT !.hl = SetTags(@, i, i + 1, "HL_COMMENT")])
    ELSE IF st.in_string
    THEN IF c = "\\" /\ i + 1 < size_
         THEN HighlightFrom(cs, i + 2,
                  [st EXCEPT !.hl = SetTags(@, i, i + 2, "HL_STRING")])
         ELSE IF c = st.string_quote_char
         THEN HighlightFrom(cs, i + 1,
                  [st EXCEPT !.hl = SetTags(@, i, i + 1, "HL_STRING"),
                             !.in_string = FALSE, !.string_quote_char = NUL])
         ELSE HighlightFrom(cs, i + 1,
                  [st EXCEPT !.hl = SetTags(@, i, i + 1, "HL_STRING")])
    ELSE IF c \in {SQUOTE, DQUOTE, BACKTICK}
    THEN HighlightFrom(cs, i + 1,
             [st EXCEPT !.hl = SetTags(@, i, i + 1, "HL_STRING"),
                        !.in_string = TRUE, !.string_quote_char = c])
    ELSE IF c = "/" /\ i + 1 < size_ /\ cs[i + 2] = "/"
    THEN [st EXCEPT !.hl = SetTags(@, i, size_, "HL_COMMENT")]
    ELSE IF c = "#"
    THEN [st EXCEPT !.hl = SetTags(@, i, size_, "HL_COMMENT")]
    ELSE IF c = "/" /\ i + 1 < size_ /\ cs[i + 2] = "*"
    THEN HighlightFrom(cs, i + 2,
             [st EXCEPT !.hl = SetTags(@, i, size_, "HL_COMMENT"),
                        !.in_comment = TRUE])
    ELSE IF isdigit(c)
    THEN LET e == NumberEnd(cs, i, i)
         IN  HighlightFrom(cs, e,
                 [st EXCEPT !.hl = SetTags(@, i, e, "HL_NUMBER")])
    ELSE IF is_double_operator(cs, i)
    THEN HighlightFrom(cs, i + 2,
             [st EXCEPT !.hl = SetTags(@, i, i + 2, "HL_OPERATOR")])
    ELSE IF is_operator_char(c)
    THEN HighlightFrom(cs, i + 1,
             [st EXCEPT !.hl = SetTags(@, i, i + 1, "HL_OPERATOR")])
    ELSE IF isalnum(c) \/ c = "_"
    THEN LET e == WordEnd(cs, i)
             only_whitespace_before == \A k \in 1..i : isspace(cs[k])
         IN  IF ~st.first_word_on_line_highlighted /\ only_whitespace_before
             THEN HighlightFrom(cs, e,
                      [st EXCEPT !.hl = SetTags(@, i, e, "HL_KEYWORD"),
                                 !.first_word_on_line_highlighted = TRUE])
             ELSE HighlightFrom(cs, e, st)
    ELSE HighlightFrom(cs, i + 1, st)

\* update_highlighting without the comment state carried from the line before
update_highlighting_fresh_line(cs, in_multiline_comment_global, is_code_file) ==
    LET normal == [k \in 1..Len(cs) |-> "HL_NORMAL"]
        st == HighlightFrom(cs, 0,
                  [hl |-> normal, in_comment |-> FALSE, in_string |-> FALSE,
                   string_quote_char |-> NUL,
                   first_word_on_line_highlighted |-> FALSE])
    IN  [hl |-> st.hl, in_multiline_comment_global |-> st.in_comment]

\* update_highlighting that takes the first word for highlighted already
update_highlighting_no_keyword(cs, in_multiline_comment_global, is_code_file) ==
    LET normal == [k \in 1..Len(cs) |-> "HL_NORMAL"]
        st == HighlightFrom(cs, 0,
                  [hl |-> normal, in_comment |-> in_multiline_comment_global,
                   in_string |-> FALSE, string_quote_char |-> NUL,
                   first_word_on_line_highlighted |-> TRUE])
    IN  [hl |-> IF is_code_file THEN st.hl ELSE normal,
         in_multiline_comment_global |-> is_code_file /\ st.in_comment]

\* update_highlighting of a line with the characters cs: the tags of the
\* line and the comment state it leaves in E.in_multiline_comment_global
update_highlighting(cs, in_multiline_comment_global, is_code_file) ==
    LET normal == [k \in 1..Len(cs) |-> "HL_NORMAL"]
    IN  IF ~is_code_file
        THEN [hl |-> normal, in_multiline_comment_global |-> FALSE]
        ELSE LET st == HighlightFrom(cs, 0,
                           [hl |-> normal,
                            in_comment |-> in_multiline_comment_global,
                            in_string |-> FALSE, string_quote_char |-> NUL,
                            first_word_on_line_highlighted |-> FALSE])
             IN  [hl |-> st.hl, in_multiline_comment_global |-> st.in_comment]

\* the lines 0 .. y - 1 highlighted in order, as editor_refresh_screen does
\* from the first line down to the last row of the screen
RECURSIVE HighlightLines(_, _, _, _)
HighlightLines(s, y, in_global, hls) ==
    IF y >= num_lines(s) \/ y >= ScreenRows THEN hls
    ELSE LET r == update_highlighting(chars(s, y), in_global, s.is_code_file)
         IN  HighlightLines(s, y + 1, r.in_multiline_comment_global,
                            Append(hls, r.hl))

\* the tags editor_refresh_screen leaves on the lines it draws (the
\* document starts at the top of the screen: scroll_y = 0)
editor_refresh_screen(s) == HighlightLines(s, 0, FALSE, <<>>)

----------------------------------------------------------------------------
(* Command sequence machine *)

editor_set_file_type(s, is_code) == [s EXCEPT !.is_code_file = is_code]

\* reset_command_mode that leaves the collected sequence in place
reset_command_mode_keep_sequence(s) ==
    [s EXCEPT !.cmd_active = FALSE, !.status = ""]

reset_command_mode(s) ==
    [s EXCEPT !.cmd_active = FALSE, !.cmd_sequence = <<>>, !.status = ""]

\* editor_prompt as it returns: the command machine was reset when the
\* prompt opened, and cmd.active is set again when it was set before
editor_prompt(s) ==
    [reset_command_mode(s) EXCEPT !.cmd_active = s.cmd_active]

\* the answers the user gives to the prompts a command opens: the action
\* text of the macro prompt (NoResult, the NULL editor_prompt returns, when
\* it was cancelled with Esc), the answer
\* to "Discard unsaved changes and quit?", the text of the "Search:"
\* prompt (empty when it was cancelled), the text of the "Save as:" or the
\* recent-files prompt (NoResult when cancelled) and the answer to the
\* file-type question of a load
NoResult == "(null)"
NoAnswers ==
    [action |-> NoResult, discard |-> FALSE, query |-> <<>>,
     text |-> NoResult, is_code |-> FALSE]

\* editor_quit; the user answers N to "Save before quit?"
editor_quit(s, force_quit, answers) ==
    IF s.dirty /\ ~force_quit /\ ~answers.discard
    THEN set_status_message(editor_prompt(editor_prompt(s)), "Quit cancelled.")
    ELSE [(IF s.dirty THEN editor_prompt(s) ELSE s) EXCEPT !.exited = TRUE]

----------------------------------------------------------------------------
(* Search *)

\* strncmp(chars + x, query, strlen(query)) == 0 inside the line's text
MatchAt(cs, x, query) ==
    /\ x >= 0
    /\ x + Len(query) <= Len(cs)
    /\ \A i \in 1..Len(query) : cs[x + i] = query[i]

\* strstr(chars + from, query) - chars for from <= size: the first
\* occurrence at or after from, -1 when strstr returns NULL
strstr(cs, from, query) ==
    LET hits == {x \in from..Len(cs) : MatchAt(cs, x, query)}
    IN  IF hits = {} THEN -1 ELSE CHOOSE x \in hits : \A z \in hits : x <= z

\* the last occurrence at or before upto and at or after from, -1 when the
\* backward scan finds none
LastMatch(cs, from, upto, query) ==
    LET hits == {x \in from..upto : MatchAt(cs, x, query)}
    IN  IF hits = {} THEN -1 ELSE CHOOSE x \in hits : \A z \in hits : x >= z

\* the assignments of a hit: cursor, last found position and status
SearchFound(s, y, x, msg) ==
    [s EXCEPT !.cursor_y = y, !.cursor_x = x,
              !.last_search_found_y = y, !.last_search_found_x = x,
              !.status = msg]

\* the tail of both searches when no loop returned
SearchNotFound(s) ==
    [s EXCEPT !.status = "'(query)' not found.", !.search_active = FALSE]

\* editor_find_next.  The forward loop starts reading at
\* chars + last_search_found_x + 1, which lies beyond the terminator when
\* the last position is the end of its line; the wrap loop reads the rows
\* 0..last_search_found_y, which are not all rows of the document when the
\* last position is below the last line.
editor_find_next(s) ==
    IF ~s.search_active \/ s.last_search_query = <<>>
    THEN set_status_message(s,
             "No active search. Use Ctrl+F to start a new search.")
    ELSE LET query == s.last_search_query
             start_y == s.last_search_found_y
             start_x == s.last_search_found_x + 1
             forward == {y \in start_y..(num_lines(s) - 1) :
                            strstr(chars(s, y),
                                   IF y = start_y THEN start_x ELSE 0,
                                   query) >= 0}
             wrapped == {y \in 0..Min(start_y, num_lines(s) - 1) :
                            LET match == strstr(chars(s, y), 0, query)
                            IN  /\ match >= 0
                                /\ (y < start_y \/ match < start_x)}
         IN  IF ValidRow(s, start_y) /\ start_x > size(s, start_y)
             THEN UB(s, "col")
             ELSE IF forward /= {}
             THEN LET y == CHOOSE y \in forward : \A z \in forward : y <= z
                  IN  SearchFound(s, y,
                          strstr(chars(s, y),
                                 IF y = start_y THEN start_x ELSE 0, query),
                          "Found '(query)'")
             ELSE IF wrapped /= {}
             THEN LET y == CHOOSE y \in wrapped : \A z \in wrapped : y <= z
                  IN  SearchFound(s, y, strstr(chars(s, y), 0, query),
                          "Found '(query)' (wrapped from beginning)")
             ELSE IF start_y >= num_lines(s)
             THEN UB(s, "row")
             ELSE SearchNotFound(s)

\* editor_find_prev.  The backward loop reads E.lines[y].size for the rows
\* last_search_found_y down to 0 (the first only when start_x >= 0).
editor_find_prev(s) ==
    IF ~s.search_active \/ s.last_search_query = <<>>
    THEN set_status_message(s,
             "No active search. Use Ctrl+F to start a new search.")
    ELSE LET query == s.last_search_query
             start_y == s.last_search_found_y
             start_x == s.last_search_found_x - 1
             BackIn(y) == LastMatch(chars(s, y), 0,
                              IF y = start_y THEN start_x ELSE size(s, y) - 1,
                              query)
             backward == {y \in 0..Min(start_y, num_lines(s) - 1) :
                             BackIn(y) >= 0}
             WrapIn(y) == LastMatch(chars(s, y),
                              IF y = start_y THEN start_x ELSE 0,
                              size(s, y) - Len(query), query)
             wrapped == {y \in Max(start_y, 0)..(num_lines(s) - 1) :
                            WrapIn(y) >= 0}
         IN  IF start_y > num_lines(s)
                \/ (start_y = num_lines(s) /\ start_x >= 0)
             THEN UB(s, "row")
             ELSE IF backward /= {}
             THEN LET y == CHOOSE y \in backward : \A z \in backward : y >= z
                  IN  SearchFound(s, y, BackIn(y), "Found '(query)'")
             ELSE IF wrapped /= {}
             THEN LET y == CHOOSE y \in wrapped : \A z \in wrapped : y >= z
                  IN  SearchFound(s, y, WrapIn(y),
                          "Found '(query)' (wrapped from end)")
             ELSE SearchNotFound(s)

\* editor_find; query is the text entered at the "Search:" prompt, empty
\* when the prompt was cancelled (it returns no empty text)
editor_find(s, query) ==
    IF query = <<>>
    THEN [editor_prompt(s) EXCEPT !.search_active = FALSE,
                                  !.status = "Cancelled."]
    ELSE editor_find_next(
             [editor_prompt(s) EXCEPT !.last_search_query = query,
                                      !.search_active = TRUE,
                                      !.last_search_found_y = s.cursor_y,
                                      !.last_search_found_x = s.cursor_x])

\* the position the search of editor_find_replace goes on from after the
\* occurrence at x_pos was replaced: the occurrence itself again
SearchResume_at_match(x_pos, replace) == x_pos

\* current_pos = line_chars + x_pos + replace_len
SearchResume(x_pos, replace) == x_pos + Len(replace)

\* one pass of the inner loop of editor_find_replace without the undo entry
ReplaceAt_unrecorded(s, y, x_pos, find, replace) ==
    LET new_line_size == size(s, y) - Len(find) + Len(replace)
    IN  IF new_line_size + 1 > allocated(s, y) /\ s.alloc_fails
        THEN UB(set_status_message(s,
                    "Error: Failed to reallocate line memory for replace."),
                "null_chars")
        ELSE [SetLine(s, y,
                  Take(chars(s, y), x_pos) \o replace
                      \o Drop(chars(s, y), x_pos + Len(find)),
                  new_line_size + 1,
                  new_line_size + 1 + MAX_LINE_LENGTH_BUFFER)
                EXCEPT !.dirty = TRUE]

\* one pass of the inner loop of editor_find_replace: the occurrence of find
\* at column x_pos of line y is replaced; a failed realloc leaves the line
\* without buffer and the pushed entry with a freed text
ReplaceAt(s, y, x_pos, find, replace) ==
    ReplaceAt_unrecorded(
        push_undo_action(s,
            UndoAction("UNDO_MODIFY_LINE_CASE", y, 0, NUL, chars(s, y),
                       size(s, y), 1)),
        y, x_pos, find, replace)

\* the two loops of editor_find_replace from line y, column from on, for at
\* most fuel passes of the inner loop; finished tells whether the loops
\* came to their end within these, replacements_made is the counter
RECURSIVE ReplaceLoop(_, _, _, _, _, _)
ReplaceLoop(s, y, from, find, replace, fuel) ==
    IF ~Defined(s) \/ y >= num_lines(s)
    THEN [st |-> s, finished |-> TRUE, replacements_made |-> 0]
    ELSE IF strstr(chars(s, y), from, find) = -1
    THEN ReplaceLoop(s, y + 1, 0, find, replace, fuel)
    ELSE IF fuel = 0
    THEN [st |-> s, finished |-> FALSE, replacements_made |-> 0]
    ELSE [ReplaceLoop(
              ReplaceAt(s, y, strstr(chars(s, y), from, find), find, replace),
              y, SearchResume(strstr(chars(s, y), from, find), replace),
              find, replace, fuel - 1)
            EXCEPT !.replacements_made = @ + 1]

\* the state the loops of editor_find_replace leave
Replaced(r) ==
    IF Defined(r.st) /\ r.finished
    THEN set_status_message(r.st, "Replaced (n) occurrences.") ELSE r.st

\* editor_find_replace; find and replace are the texts entered at the two
\* prompts, empty when the prompt was cancelled (it returns no empty text)
editor_find_replace(s, find, replace) ==
    IF find = <<>>
    THEN set_status_message(editor_prompt(s), "Find & Replace cancelled.")
    ELSE IF replace = <<>>
    THEN set_status_message(editor_prompt(editor_prompt(s)),
                            "Find & Replace cancelled.")
    ELSE Replaced(ReplaceLoop(editor_prompt(editor_prompt(s)), 0, 0, find,
                              replace, MaxReplacePasses))

\* the loops of editor_find_replace come to their end
FindReplaceReturns(s, find, replace) ==
    find = <<>> \/ replace = <<>>
        \/ ReplaceLoop(s, 0, 0, find, replace, MaxReplacePasses).finished

\* the action texts entered at the macro prompt ("save_file" is not entered)
ActionNames == {"quit_confirm", "upper", "note"}

execute_custom_command(s, action, answers) ==
    IF action = "upper" THEN editor_change_line_case(s, TRUE)
    ELSE IF action = "lower" THEN editor_change_line_case(s, FALSE)
    ELSE IF action = "duplicate" THEN editor_duplicate_line(s)
    ELSE IF action = "quit_confirm" THEN editor_quit(s, FALSE, answers)
    ELSE set_status_message(s, "Macro action executed (placeholder).")

\* result is the text the prompt returned, NoResult when it was cancelled
enter_creative_mode(s, result) ==
    IF Len(s.macros) >= MAX_MACROS
    THEN reset_command_mode(set_status_message(s, "Max macros reached."))
    ELSE IF Len(s.cmd_sequence) = 0
    THEN reset_command_mode(
             set_status_message(s, "Cannot create macro for empty sequence."))
    ELSE LET s1 == editor_prompt(s)
         IN  IF result /= NoResult
             THEN reset_command_mode(
                      [s1 EXCEPT !.macros =
                           Append(@, [sequence |-> s1.cmd_sequence,
                                      action |-> result])])
             ELSE reset_command_mode(s1)

\* the command names autocomplete_command knows, in table order
AutocompleteCommands ==
    << <<"S">>, <<"S", "A">>, <<"F">>, <<"F", "N">>, <<"F", "P">>, <<"R">>,
       <<"G">>, <<"L", "N">>, <<"D", "U">>, <<"U", "L">>, <<"L", "L">>,
       <<"D", "L">>, <<"Q", "W">>, <<"I">>, <<"R">>, <<"K", "N">>,
       <<"T", "C">>, <<"C", "T">>, <<"Z">>, <<"Y">>,
       <<"h">>, <<"j">>, <<"k">>, <<"l">> >>

\* strncasecmp(command, seq, length) == 0
strncasecmp0(command, seq) ==
    \A i \in 1..Len(seq) : tolower(CharAt(command, i - 1)) = tolower(seq[i])

\* autocomplete_command that compares the characters as they are (strncmp)
autocomplete_command_case_sensitive(s) ==
    LET hits == {i \in 1..Len(AutocompleteCommands) :
                    \A k \in 1..Len(s.cmd_sequence) :
                        CharAt(AutocompleteCommands[i], k - 1) =
                            s.cmd_sequence[k]}
    IN  IF hits /= {}
        THEN [s EXCEPT !.cmd_sequence =
                           AutocompleteCommands[
                               CHOOSE i \in hits : \A j \in hits : i <= j],
                       !.status = "Command Mode: (sequence)"]
        ELSE set_status_message(s, "No autocomplete match.")

autocomplete_command(s) ==
    LET hits == {i \in 1..Len(AutocompleteCommands) :
                    strncasecmp0(AutocompleteCommands[i], s.cmd_sequence)}
    IN  IF hits /= {}
        THEN [s EXCEPT !.cmd_sequence =
                           AutocompleteCommands[
                               CHOOSE i \in hits : \A j \in hits : i <= j],
                       !.status = "Command Mode: (sequence)"]
        ELSE set_status_message(s, "No autocomplete match.")

----------------------------------------------------------------------------
(* Files *)

\* the line of the code file "statement" and the note typed at its end
Statement == <<"i", "n", "t", " ", "x", " ", "=", " ", "1", ";">>
Note == <<" ", "/", "/", " ", "n", "o", "t", "e">>

\* the files that exist, each the sequence of its lines; any other name is
\* a file that fopen cannot open
FileSystem ==
    [empty |-> <<>>,
     one   |-> << <<"a", "b">> >>,
     two   |-> << <<"a", "b">>, <<>> >>,
     three |-> << <<"a", "b">>, <<"b">>, <<"b", "a">> >>,
     five  |-> << <<"a">>, <<"b">>, <<"a", "b">>, <<"b", "a">>, <<"b", "b">> >>,
     comment |-> << <<"/", "*">>, <<>>, <<"*", "/">> >>,
     statement |-> << Statement >>,
     closed |-> << <<"/", "*", "a", "*", "/", " ", "b">> >>]
\* the names the user opens in the full specification
FileNames == {"empty", "one", "two", "missing"}
\* the documents of the block-operation specification
BlockFileNames == {"two", "three", "five"}

\* the documents of the highlighter specification
CodeFileNames == {"comment"}

\* a NULL entry of E.recent_files
NoPath == "(null path)"

\* add_to_recent_files (strdup succeeds); E.recent_files is the whole array
\* of MAX_RECENT_FILES slots, slot i of the source is recent_files[i + 1]
add_to_recent_files(s, filename) ==
    LET rf == s.recent_files
        n == s.num_recent_files
        hits == {i \in 1..n : rf[i] = filename}
        i0 == CHOOSE i \in hits : \A j \in hits : i <= j
        \* the shift of the full list: slot j gets slot j - 1
        shifted == [j \in 1..MAX_RECENT_FILES |->
                       IF j > 1 THEN rf[j - 1] ELSE rf[j]]
    IN  IF hits /= {}
        THEN [s EXCEPT !.recent_files =
                 [j \in 1..MAX_RECENT_FILES |->
                     IF j = 1 THEN rf[i0]
                     ELSE IF j <= i0 THEN rf[j - 1] ELSE rf[j]]]
        ELSE IF n = MAX_RECENT_FILES
        THEN [s EXCEPT !.recent_files = [shifted EXCEPT ![1] = filename]]
        ELSE [s EXCEPT !.recent_files = [rf EXCEPT ![1] = filename],
                       !.num_recent_files = n + 1]

\* the loop `while (getline) editor_insert_line(E.num_lines, line, len)`
RECURSIVE InsertFileLines(_, _)
InsertFileLines(s, file_lines) ==
    IF file_lines = <<>> THEN s
    ELSE InsertFileLines(editor_insert_line(s, num_lines(s), Head(file_lines)),
                         Tail(file_lines))

\* the prompt of prompt_file_type runs editor_prompt, which resets the
\* command machine, and then reports the chosen type; is_code: the answer
\* began with 'c'
prompt_file_type(s, is_code) ==
    set_status_message(editor_set_file_type(editor_prompt(s), is_code),
                       IF is_code THEN "File type set to: Code."
                       ELSE "File type set to: Text.")

editor_load_file(s, filename, is_code) ==
    LET s1 == [s EXCEPT !.lines = <<>>, !.allocated_lines = 0,
                        !.cursor_x = 0, !.cursor_y = 0,
                        !.filename = filename]
    IN  IF filename \notin DOMAIN FileSystem
        THEN prompt_file_type(
                 [editor_insert_line(s1, 0, <<>>) EXCEPT !.dirty = FALSE], is_code)
        ELSE init_undo_redo(add_to_recent_files(prompt_file_type(
                 [InsertFileLines(s1, FileSystem[filename])
                     EXCEPT !.dirty = FALSE], is_code), filename))

\* editor_open_file with the name the prompt returns
editor_open_file(s, filename, is_code) ==
    editor_load_file(editor_prompt(s), filename, is_code)

----------------------------------------------------------------------------
(* Command sequence machine: the commands *)

\* fopen(E.filename, "w") succeeds and the lines are written
WriteFile(s) == [s EXCEPT !.dirty = FALSE, !.status = "Saved (file)."]

\* editor_save_as; text is what the "Save as:" prompt returned
editor_save_as(s, text) ==
    IF text /= NoResult
    THEN WriteFile([editor_prompt(s) EXCEPT !.filename = text])
    ELSE set_status_message(editor_prompt(s), "Save As cancelled.")

\* editor_save_file; E.filename is NULL in a new document
editor_save_file(s, text) ==
    IF s.filename = ""
    THEN IF editor_save_as(s, text).dirty
         THEN set_status_message(editor_save_as(s, text),
                                 "Save cancelled or failed.")
         ELSE editor_save_as(s, text)
    ELSE WriteFile(s)

\* editor_show_file_info: stat() fails for a file that does not exist
editor_show_file_info(s) ==
    IF s.filename = "" THEN set_status_message(s, "No file loaded.")
    ELSE IF s.filename \notin DOMAIN FileSystem
    THEN set_status_message(s, "Error getting file info.")
    ELSE set_status_message(s, "File: (info)")

\* editor_toggle_line_numbers; the flag belongs to the display
editor_toggle_line_numbers(s) == set_status_message(s, "Line numbers: (flag)")

\* atoi of the texts entered at the recent-files prompt
atoi(text) == IF text = "1" THEN 1 ELSE IF text = "2" THEN 2 ELSE 0

\* editor_show_recent_files; text is what its prompt returned
editor_show_recent_files(s, text, is_code) ==
    IF s.num_recent_files = 0
    THEN set_status_message(s, "No recently opened files.")
    ELSE IF text = NoResult
    THEN set_status_message(editor_prompt(s),
                            "Recent files selection cancelled.")
    ELSE IF atoi(text) > 0 /\ atoi(text) <= s.num_recent_files
    THEN editor_load_file(editor_prompt(s), s.recent_files[atoi(text)],
                          is_code)
    ELSE set_status_message(editor_prompt(s), "Invalid selection.")

\* the sequences the user types in command mode, one per modelled branch of
\* execute_command_sequence, and one that matches no command
CmdInputs == {<<"D", "L">>, <<"D", "U">>, <<"U", "L">>, <<"L", "L">>,
              <<"Z">>, <<"Y">>, <<"j">>, <<"X">>}

execute_command_sequence(s, answers) ==
    LET seq == s.cmd_sequence
        Is(name) == strcasecmp0(seq, name)
        bound_ == {i \in 1..Len(s.macros) : s.macros[i].sequence = seq}
    IN  IF Len(seq) = 0
        THEN set_status_message(s, "Commands: S=Save, ... (Tab:list)")
        ELSE IF seq = <<":", ":">>
        THEN enter_creative_mode(s, answers.action)
        ELSE IF seq = <<"?">>
        THEN s
        ELSE IF Is(<<"K", "N">>)
        THEN reset_command_mode(s)
        ELSE IF Is(<<"T", "C">>)
        THEN reset_command_mode(editor_set_file_type(s, TRUE))
        ELSE IF Is(<<"C", "T">>)
        THEN reset_command_mode(editor_set_file_type(s, FALSE))
        ELSE IF Is(<<"h">>)
        THEN reset_command_mode(editor_move_cursor(s, "KEY_LEFT"))
        ELSE IF Is(<<"j">>)
        THEN reset_command_mode(editor_move_cursor(s, "KEY_DOWN"))
        ELSE IF Is(<<"k">>)
        THEN reset_command_mode(editor_move_cursor(s, "KEY_UP"))
        ELSE IF Is(<<"l">>)
        THEN reset_command_mode(editor_move_cursor(s, "KEY_RIGHT"))
        ELSE IF Is(<<"I">>)
        THEN reset_command_mode(editor_show_file_info(s))
        ELSE IF Is(<<"F", "N">>)
        THEN reset_command_mode(editor_find_next(s))
        ELSE IF Is(<<"F", "P">>)
        THEN reset_command_mode(editor_find_prev(s))
        ELSE IF Is(<<"D", "U">>)
        THEN reset_command_mode(editor_duplicate_line(s))
        ELSE IF Is(<<"D", "L">>)
        THEN reset_command_mode(DeleteLineCommand(s))
        ELSE IF Is(<<"U", "L">>)
        THEN reset_command_mode(editor_change_line_case(s, TRUE))
        ELSE IF Is(<<"L", "L">>)
        THEN reset_command_mode(editor_change_line_case(s, FALSE))
        ELSE IF Is(<<"L", "N">>)
        THEN reset_command_mode(editor_toggle_line_numbers(s))
        ELSE IF Is(<<"R">>)
        THEN reset_command_mode(
                 editor_show_recent_files(s, answers.text, answers.is_code))
        ELSE IF Is(<<"Z">>)
        THEN reset_command_mode(editor_undo(s))
        ELSE IF Is(<<"Y">>)
        THEN reset_command_mode(editor_redo(s))
        ELSE IF Is(<<"S">>)
        THEN reset_command_mode(editor_save_file(s, answers.text))
        ELSE IF Is(<<"S", "A">>)
        THEN reset_command_mode(editor_save_as(s, answers.text))
        ELSE IF Is(<<"F">>)
        THEN reset_command_mode(editor_find(s, answers.query))
        ELSE IF bound_ /= {}
        THEN reset_command_mode(
                 execute_custom_command(s,
                     s.macros[CHOOSE i \in bound_ : \A j \in bound_ : i <= j]
                         .action,
                     answers))
        ELSE IF Is(<<"Q", "W">>)
        THEN editor_quit(s, TRUE, answers)
        ELSE set_status_message(s, "Unknown command.")

\* the reset_command_mode() after execute_command_sequence(), which is not
\* reached when the command has ended the program
ResetUnlessExited(t) == IF t.exited THEN t ELSE reset_command_mode(t)

\* CommandKey that also hands a collected character to the document
CommandKey_falls_through(s, key, answers) ==
    IF key = ":" /\ Len(s.cmd_sequence) > 0
    THEN enter_creative_mode(s, answers.action)
    ELSE IF key = "\t"
    THEN autocomplete_command(s)
    ELSE IF key = "\n"
    THEN ResetUnlessExited(execute_command_sequence(s, answers))
    ELSE IF key = "KEY_BACKSPACE"
    THEN IF Len(s.cmd_sequence) > 0
         THEN [s EXCEPT !.cmd_sequence = Take(@, Len(@) - 1),
                        !.status = "Command Mode: (sequence)"]
         ELSE reset_command_mode(s)
    ELSE IF key = "ESC"
    THEN reset_command_mode(set_status_message(s, "Command mode cancelled."))
    ELSE IF Len(s.cmd_sequence) < MAX_COMMAND_SEQUENCE_LENGTH - 1
    THEN editor_insert_char([s EXCEPT !.cmd_sequence = Append(@, key)], key)
    ELSE set_status_message(s, "Command Mode: (invalid key or too long)")

\* handle_command_mode_input below its timeout check: key is the key read,
\* answers what the user enters at the prompts the key opens
CommandKey(s, key, answers) ==
    IF key = ":" /\ Len(s.cmd_sequence) > 0
    THEN enter_creative_mode(s, answers.action)
    ELSE IF key = "\t"
    THEN autocomplete_command(s)
    ELSE IF key = "\n"
    THEN ResetUnlessExited(execute_command_sequence(s, answers))
    ELSE IF key = "KEY_BACKSPACE"
    THEN IF Len(s.cmd_sequence) > 0
         THEN [s EXCEPT !.cmd_sequence = Take(@, Len(@) - 1),
                        !.status = "Command Mode: (sequence)"]
         ELSE reset_command_mode(s)
    ELSE IF key = "ESC"
    THEN reset_command_mode(set_status_message(s, "Command mode cancelled."))
    ELSE IF Len(s.cmd_sequence) < MAX_COMMAND_SEQUENCE_LENGTH - 1
    THEN [s EXCEPT !.cmd_sequence = Append(@, key)]
    ELSE set_status_message(s, "Command Mode: (invalid key or too long)")

\* the comparison time(NULL) - E.cmd.last_key_time > COMMAND_TIMEOUT_MS /
\* 1000.0 for a last command keystroke that arrived frac milliseconds after
\* the start of a second and a key that arrives gap milliseconds later:
\* time(NULL) counts whole seconds
TimedOut(frac, gap) == ((frac + gap) \div 1000) * 1000 > COMMAND_TIMEOUT_MS

\* late is the outcome of the timeout comparison
handle_command_mode_input(s, key, late, answers) ==
    IF late
    THEN reset_command_mode(set_status_message(s, "Command timeout."))
    ELSE CommandKey(s, key, answers)

----------------------------------------------------------------------------
(* Start of the program *)

\* the state init_editor leaves
init_editor ==
    [lines |-> <<>>, cursor_x |-> 0, cursor_y |-> 0, dirty |-> FALSE,
     status |-> "Help", clipboard |-> <<>>,
     visual_mode |-> FALSE, visual_start_x |-> 0, visual_start_y |-> 0,
     undo_history |-> <<>>, redo_history |-> <<>>,
     cmd_active |-> FALSE, cmd_sequence |-> <<>>,
     filename |-> "", is_code_file |-> FALSE,
     macros |-> <<>>, exited |-> FALSE,
     allocated_lines |-> 0, alloc_fails |-> FALSE,
     recent_files |-> [j \in 1..MAX_RECENT_FILES |-> NoPath],
     num_recent_files |-> 0,
     search_active |-> FALSE, last_search_query |-> <<>>,
     last_search_found_y |-> -1, last_search_found_x |-> -1,
     ub |-> "none"]

\* main: with a file argument, or with none (one empty line)
main(arg, is_code) ==
    IF arg = ""
    THEN prompt_file_type(
             [editor_insert_line(init_editor, 0, <<>>) EXCEPT !.dirty = FALSE],
             is_code)
    ELSE editor_load_file(init_editor, arg, is_code)

----------------------------------------------------------------------------
(* The event loop: one action per key of editor_process_keypress.          *)
(* nkeys is the number of keys the user still presses, last_key the key    *)
(* handled last.                                                           *)

\* the documents the model explores
Bounded(s) ==
    /\ num_lines(s) <= MaxLines
    /\ \A i \in 1..num_lines(s) : Len(s.lines[i].chars) <= MaxLineLen
    /\ Len(s.clipboard) <= MaxLines * (MaxLineLen + 1)

\* key was read outside command mode and handled, leaving the state t
Handle(key, t) ==
    /\ Defined(E)
    /\ ~E.exited
    /\ ~E.cmd_active
    /\ nkeys > 0
    /\ Bounded(t)
    /\ E' = t
    /\ nkeys' = nkeys - 1
    /\ last_key' = key

\* key was read in command mode and handled, leaving the state t
HandleCmd(key, t) ==
    /\ Defined(E)
    /\ ~E.exited
    /\ E.cmd_active
    /\ nkeys > 0
    /\ Bounded(t)
    /\ E' = t
    /\ nkeys' = nkeys - 1
    /\ last_key' = key

KeyChar == \E c \in Alphabet : Handle("char", editor_insert_char(E, c))
KeyCodeChar == \E c \in CodeAlphabet : Handle("char", editor_insert_char(E, c))
KeyBackspace == Handle("KEY_BACKSPACE", editor_delete_char(E))
KeyDelete == Handle("KEY_DC", DeleteKey(E))
KeyEnter == Handle("KEY_ENTER", editor_insert_newline(E))
KeyArrow ==
    \E k \in {"KEY_LEFT", "KEY_RIGHT", "KEY_UP", "KEY_DOWN"} :
        Handle(k, editor_move_cursor(E, k))
KeyHome == Handle("KEY_HOME", [E EXCEPT !.cursor_x = 0])
KeyEnd ==
    Handle("KEY_END",
           IF E.cursor_y < num_lines(E)
           THEN [E EXCEPT !.cursor_x = size(E, E.cursor_y)] ELSE E)
KeySelectAll == Handle("CTRL_A", editor_select_all(E))
KeyVisual == Handle("CTRL_V", editor_toggle_visual_mode(E))
KeyCopy == Handle("CTRL_C", editor_copy_selection(E))
KeyCut == Handle("CTRL_X", editor_cut_selection(E))
KeyPaste == Handle("CTRL_P", editor_paste_line(E))
KeyUndo == Handle("CTRL_Z", editor_undo(E))
KeyRedo == Handle("CTRL_Y", editor_redo(E))
KeyOpen ==
    \E f \in FileNames : \E is_code \in BOOLEAN :
        Handle("CTRL_O", editor_open_file(E, f, is_code))
\* case CTRL('\\') of editor_process_keypress
CommandModeKey(s) ==
    [s EXCEPT !.cmd_active = TRUE, !.cmd_sequence = <<>>,
              !.status = "Command Mode: (type command sequence)"]
KeyCommandMode == Handle("CTRL_BACKSLASH", CommandModeKey(E))

\* a printable key that extends the sequence towards one of CmdInputs
CmdKey ==
    \E q \in CmdInputs :
        /\ Len(E.cmd_sequence) < Len(q)
        /\ Take(q, Len(E.cmd_sequence)) = E.cmd_sequence
        /\ HandleCmd("CMD_CHAR",
               handle_command_mode_input(E, q[Len(E.cmd_sequence) + 1], FALSE,
                                         NoAnswers))
CmdEnter ==
    HandleCmd("CMD_ENTER",
              handle_command_mode_input(E, "\n", FALSE, NoAnswers))
CmdBackspace ==
    HandleCmd("CMD_BACKSPACE",
              handle_command_mode_input(E, "KEY_BACKSPACE", FALSE, NoAnswers))
CmdEscape ==
    HandleCmd("CMD_ESC", handle_command_mode_input(E, "ESC", FALSE, NoAnswers))
\* the sequences typed in the command specification: one that is no
\* command, a built-in, the quit command, and one in lower case that no
\* command starts with
CmdSequences == {<<"Q">>, <<"U", "L">>, <<"Q", "W">>, <<"q", "x">>}
CmdType ==
    \E q \in CmdSequences :
        /\ Len(E.cmd_sequence) < Len(q)
        /\ Take(q, Len(E.cmd_sequence)) = E.cmd_sequence
        /\ HandleCmd("CMD_CHAR",
               handle_command_mode_input(E, q[Len(E.cmd_sequence) + 1], FALSE,
                                         NoAnswers))
\* Enter, with the answer to the question a quit asks
CmdCommit ==
    \E d \in BOOLEAN :
        HandleCmd("CMD_ENTER",
                  handle_command_mode_input(E, "\n", FALSE,
                      [NoAnswers EXCEPT !.discard = d]))
\* the bind key ':' on a non-empty sequence, with an action entered at the
\* prompt or the prompt cancelled
CmdBind ==
    \E a \in ActionNames :
        /\ Len(E.cmd_sequence) > 0
        /\ HandleCmd("CMD_BIND",
               handle_command_mode_input(E, ":", FALSE,
                   [NoAnswers EXCEPT !.action = a]))
CmdBindCancel ==
    /\ Len(E.cmd_sequence) > 0
    /\ HandleCmd("CMD_BIND_ESC",
           handle_command_mode_input(E, ":", FALSE, NoAnswers))
CmdTab == HandleCmd("CMD_TAB", handle_command_mode_input(E, "\t", FALSE, NoAnswers))
\* the parts of a second at which the last command keystroke arrived, and
\* the gaps above COMMAND_TIMEOUT_MS after which the next key arrives
Fractions == {0, 500}
LateGaps == {1600, 2500}
\* any key that arrives more than COMMAND_TIMEOUT_MS after the last command
\* keystroke (the other command keys arrive within a second of it)
CmdTimeout ==
    \E key \in {"\n", "\t", ":", "KEY_BACKSPACE", "ESC", "a"} :
        \E frac \in Fractions : \E gap \in LateGaps :
            /\ gap > COMMAND_TIMEOUT_MS
            /\ HandleCmd("CMD_LATE",
                   handle_command_mode_input(E, key, TimedOut(frac, gap),
                                             NoAnswers))

\* the texts entered at the "Search:" prompt: <<"c">> occurs in no document
Queries == {<<"b">>, <<"a", "b">>, <<"c">>}
\* case CTRL('f') of editor_process_keypress, the prompt answered or
\* cancelled
KeyFind ==
    \E query \in Queries \cup {<<>>} : Handle("CTRL_F", editor_find(E, query))
\* the search commands typed in the search specification
FindSequences == {<<"F">>, <<"F", "N">>, <<"F", "P">>}
CmdFindType ==
    \E q \in FindSequences :
        /\ Len(E.cmd_sequence) < Len(q)
        /\ Take(q, Len(E.cmd_sequence)) = E.cmd_sequence
        /\ HandleCmd("CMD_CHAR",
               handle_command_mode_input(E, q[Len(E.cmd_sequence) + 1], FALSE,
                                         NoAnswers))
\* Enter, with the answer to the prompt the command F opens
CmdFindCommit ==
    \E query \in Queries \cup {<<>>} :
        HandleCmd("CMD_ENTER",
                  handle_command_mode_input(E, "\n", FALSE,
                      [NoAnswers EXCEPT !.query = query]))

\* the state in which malloc and realloc return NULL from now on
NoMemory(s) == [s EXCEPT !.alloc_fails = TRUE]
\* a character typed, and Enter pressed, when memory has run out
KeyCharNoMemory ==
    \E c \in Alphabet : Handle("char_nomem", editor_insert_char(NoMemory(E), c))
KeyEnterNoMemory ==
    Handle("KEY_ENTER_nomem", editor_insert_newline(NoMemory(E)))

\* the texts entered at the prompts of editor_find_replace
Finds == {<<"a">>, <<"b", "b">>, <<"a", "b">>}
Replacements == {<<"b">>, <<"a", "a">>, <<"b", "b">>}
\* editor_find_replace with the two prompts answered or cancelled; the next
\* key is read once it has returned
DoFindReplace ==
    \E find \in Finds \cup {<<>>} : \E replace \in Replacements \cup {<<>>} :
        /\ FindReplaceReturns(E, find, replace)
        /\ Handle("REPLACE", editor_find_replace(E, find, replace))

(* The full specification: every modelled key, from every way main starts *)
Init ==
    /\ \E arg \in FileNames \cup {""} : \E is_code \in BOOLEAN :
           E = main(arg, is_code)
    /\ nkeys = MaxKeys
    /\ last_key = "none"

Next ==
    \/ KeyChar \/ KeyBackspace \/ KeyDelete \/ KeyEnter
    \/ KeyArrow \/ KeyHome \/ KeyEnd
    \/ KeySelectAll \/ KeyVisual \/ KeyCopy \/ KeyCut \/ KeyPaste
    \/ KeyUndo \/ KeyRedo \/ KeyOpen
    \/ KeyCommandMode \/ CmdKey \/ CmdEnter \/ CmdBackspace \/ CmdEscape
    \/ CmdTimeout

Spec == Init /\ [][Next]_vars

(* The history specification: a new file and the keys that fill and drain   *)
(* the two histories, explored deeper                                      *)
InitLog ==
    /\ E = main("", FALSE)
    /\ nkeys = MaxLogKeys
    /\ last_key = "none"

NextLog == KeyChar \/ KeyEnter \/ KeyBackspace \/ KeyUndo \/ KeyRedo

SpecLog == InitLog /\ [][NextLog]_vars

(* The block specification: multi-line documents, selection, cut, paste     *)
InitBlock ==
    /\ \E arg \in BlockFileNames : E = main(arg, FALSE)
    /\ nkeys = MaxBlockKeys
    /\ last_key = "none"

NextBlock ==
    \/ KeyArrow \/ KeyEnd \/ KeyVisual \/ KeyCut \/ KeyPaste \/ KeyUndo

SpecBlock == InitBlock /\ [][NextBlock]_vars

(* The highlighter specification: a file with a block comment over three   *)
(* lines, and the keys that change what the comment holds                  *)
InitHl ==
    /\ \E arg \in CodeFileNames : \E is_code \in BOOLEAN :
           E = main(arg, is_code)
    /\ nkeys = MaxHlKeys
    /\ last_key = "none"

NextHl == KeyCodeChar \/ KeyArrow \/ KeyBackspace \/ KeyEnter

SpecHl == InitHl /\ [][NextHl]_vars

(* The command specification: the command sequence machine with macro     *)
(* binding, autocomplete and quit, and typing outside command mode         *)
InitCmd ==
    /\ \E arg \in {"", "one"} : E = main(arg, FALSE)
    /\ nkeys = MaxCmdKeys
    /\ last_key = "none"

NextCmd ==
    \/ KeyCommandMode \/ KeyChar
    \/ CmdType \/ CmdCommit \/ CmdBackspace \/ CmdEscape \/ CmdTimeout
    \/ CmdBind \/ CmdBindCancel \/ CmdTab

SpecCmd == InitCmd /\ [][NextCmd]_vars

(* The search specification: find, find next and find previous from the    *)
(* key and from command mode, cursor movement and the Delete key           *)
InitFind ==
    /\ \E arg \in {"one", "three"} : E = main(arg, FALSE)
    /\ nkeys = MaxFindKeys
    /\ last_key = "none"

NextFind ==
    \/ KeyArrow \/ KeyEnd \/ KeyDelete \/ KeyFind
    \/ KeyCommandMode \/ CmdFindType \/ CmdFindCommit

SpecFind == InitFind /\ [][NextFind]_vars

(* The memory specification: typing and Enter, with allocations that fail  *)
InitMem ==
    /\ \E arg \in {"", "one", "three"} : E = main(arg, FALSE)
    /\ nkeys = MaxMemKeys
    /\ last_key = "none"

NextMem ==
    \/ KeyChar \/ KeyEnter \/ KeyArrow \/ KeyCharNoMemory \/ KeyEnterNoMemory

SpecMem == InitMem /\ [][NextMem]_vars

(* The recent-files specification: files opened one after the other, and   *)
(* typing in between                                                       *)
InitRecent ==
    /\ \E arg \in FileNames \cup {""} : E = main(arg, FALSE)
    /\ nkeys = MaxRecentKeys
    /\ last_key = "none"

NextRecent == KeyOpen \/ KeyChar

SpecRecent == InitRecent /\ [][NextRecent]_vars

(* The note specification: the code file "statement", End and Left, and    *)
(* the characters of the note typed on its line                            *)
HandleNote(key, t) ==
    /\ Defined(E)
    /\ nkeys > 0
    /\ num_lines(t) <= MaxLines
    /\ \A i \in 1..num_lines(t) : Len(t.lines[i].chars) <= MaxNoteLineLen
    /\ E' = t
    /\ nkeys' = nkeys - 1
    /\ last_key' = key

\* the character of the note that follows the ones the first line holds
NextOfNote(s) ==
    Note[Max(1, Min(Len(Note), size(s, 0) - Len(Statement) + 1))]

NoteChar ==
    \E c \in {NextOfNote(E), "a"} : HandleNote("char", editor_insert_char(E, c))
NoteEnd ==
    HandleNote("KEY_END",
               IF E.cursor_y < num_lines(E)
               THEN [E EXCEPT !.cursor_x = size(E, E.cursor_y)] ELSE E)
NoteLeft == HandleNote("KEY_LEFT", editor_move_cursor(E, "KEY_LEFT"))

InitNote ==
    /\ \E is_code \in BOOLEAN : E = main("statement", is_code)
    /\ nkeys = MaxNoteKeys
    /\ last_key = "none"

NextNote == NoteChar \/ NoteEnd \/ NoteLeft

SpecNote == InitNote /\ [][NextNote]_vars

(* The closed-comment specification: the code file "closed", whose line    *)
(* opens and closes a block comment, with the keys of the note             *)
(* specification                                                           *)
InitClosed ==
    /\ \E is_code \in BOOLEAN : E = main("closed", is_code)
    /\ nkeys = MaxClosedKeys
    /\ last_key = "none"

NextClosed == NoteChar \/ NoteEnd \/ NoteLeft

SpecClosed == InitClosed /\ [][NextClosed]_vars

(* The replace specification: typing, find-and-replace, undo and redo      *)
InitReplace ==
    /\ \E arg \in {"", "one", "three"} : E = main(arg, FALSE)
    /\ nkeys = MaxReplaceKeys
    /\ last_key = "none"

NextReplace == KeyChar \/ KeyEnter \/ DoFindReplace \/ KeyUndo \/ KeyRedo

SpecReplace == InitReplace /\ [][NextReplace]_vars

----------------------------------------------------------------------------
(* Properties *)

\* the text of the document: the line count and every line's content
TextOf(s) == [i \in 1..num_lines(s) |-> s.lines[i].chars]

\* typing the characters of word one after the other
RECURSIVE TypeAll(_, _)
TypeAll(s, word) ==
    IF word = <<>> THEN s
    ELSE TypeAll(editor_insert_char(s, Head(word)), Tail(word))

\* n undos, n redos
RECURSIVE UndoTimes(_, _)
UndoTimes(s, n) == IF n = 0 THEN s ELSE UndoTimes(editor_undo(s), n - 1)
RECURSIVE RedoTimes(_, _)
RedoTimes(s, n) == IF n = 0 THEN s ELSE RedoTimes(editor_redo(s), n - 1)

\* the step pushed one entry onto the undo history
IsPush(before, after) ==
    /\ Len(after) > 0
    /\ Take(after, Len(after) - 1) =
           IF Len(before) = MAX_UNDO_HISTORY THEN Tail(before) ELSE before

\* the keys whose handlers call push_undo_action
PushKeys ==
    {"char", "KEY_BACKSPACE", "KEY_DC", "KEY_ENTER", "CTRL_X", "CTRL_P",
     "CTRL_Y", "CMD_ENTER"}

\* the step handled a key by pushing an undo action
PushStep ==
    /\ last_key' \in PushKeys
    /\ Defined(E')
    /\ ~(last_key' = "CMD_ENTER" /\ strcasecmp0(E.cmd_sequence, <<"Z">>))
    /\ IsPush(E.undo_history, E'.undo_history)

\* C1: from any document with the cursor on an existing line, typing n >= 1
\* characters and then undoing n times leaves the line count and every
\* line's content as they were before the typing.
C1_TypeThenUndoRestores ==
    (Defined(E) /\ ~E.cmd_active /\ ValidRow(E, E.cursor_y)) =>
        \A n \in 1..MaxTyped : \A word \in [1..n -> Alphabet] :
            LET typed == TypeAll(E, word)
                undone == UndoTimes(typed, n)
            IN  Defined(undone) /\ TextOf(undone) = TextOf(E)

\* C2: whatever the type of the action on top of the undo history, an undo
\* followed at once by a redo leaves the document's content and the cursor
\* as they were before the undo.
C2_UndoThenRedoRestores ==
    (Defined(E) /\ Len(E.undo_history) > 0) =>
        LET redone == editor_redo(editor_undo(E))
        IN  /\ Defined(redone)
            /\ TextOf(redone) = TextOf(E)
            /\ redone.cursor_y = E.cursor_y
            /\ redone.cursor_x = E.cursor_x

\* C3: a redo pops only the most recent entry of the redo history and leaves
\* the older ones in place, so with k >= 2 entries recorded by k undos in a
\* row, k redos in a row are all applied and none reports nothing to redo.
C3_RedoKeepsOlderEntries ==
    (Defined(E) /\ Len(E.redo_history) >= 2) =>
        LET k == Len(E.redo_history)
        IN  /\ editor_redo(E).redo_history = Take(E.redo_history, k - 1)
            /\ \A j \in 1..k :
                   RedoTimes(E, j).status /= "Nothing to redo."

\* C4: every push onto the undo history leaves the redo history empty: right
\* after a key whose handler records an undo action, the redo history has no
\* entry and editor_redo reports that there is nothing to redo.
C4_PushClearsRedo ==
    [][PushStep =>
          /\ Len(E'.redo_history) = 0
          /\ editor_redo(E').status = "Nothing to redo."
          /\ TextOf(editor_redo(E')) = TextOf(E')]_vars

\* the new file in which a character, an undo and a character were keyed:
\* the second character was pushed while the redo history held the undone one
C4_Witness ==
    /\ E.filename = ""
    /\ last_key = "char"
    /\ nkeys = MaxKeys - 3
    /\ Len(E.undo_history) = 1
    /\ num_lines(E) = 1
    /\ size(E, 0) = 3
    /\ Len(E.redo_history) = 0

\* C5: neither history ever holds more than MAX_UNDO_HISTORY entries, and a
\* push onto a full undo history removes exactly the oldest entry, keeps the
\* others in order and places the new entry on top.
C5_HistoryIsBounded ==
    /\ [](/\ Len(E.undo_history) <= MAX_UNDO_HISTORY
          /\ Len(E.redo_history) <= MAX_UNDO_HISTORY)
    /\ [][(/\ Len(E.undo_history) = MAX_UNDO_HISTORY
           /\ last_key' \in {"char", "KEY_ENTER"}
           /\ Defined(E')) =>
              /\ Len(E'.undo_history) = MAX_UNDO_HISTORY
              /\ Take(E'.undo_history, MAX_UNDO_HISTORY - 1) =
                     Tail(E.undo_history)
              /\ E'.undo_history[MAX_UNDO_HISTORY].y = E.cursor_y
              /\ E'.undo_history[MAX_UNDO_HISTORY].x = E.cursor_x
              /\ E'.undo_history[MAX_UNDO_HISTORY].type \in
                     IF last_key' = "char" THEN {"UNDO_DELETE_CHAR"}
                     ELSE {"UNDO_INSERT_EMPTY_LINE", "UNDO_SPLIT_LINE"}]_vars

\* the new file after MAX_UNDO_HISTORY + 1 Enter keys: the last one was
\* pushed onto the full history and the entry of the first one is gone
C5_Witness ==
    /\ last_key = "KEY_ENTER"
    /\ nkeys = MaxLogKeys - (MAX_UNDO_HISTORY + 1)
    /\ num_lines(E) = MAX_UNDO_HISTORY + 2
    /\ Len(E.undo_history) = MAX_UNDO_HISTORY
    /\ E.undo_history[1].y = 1
    /\ E.undo_history[MAX_UNDO_HISTORY].y = MAX_UNDO_HISTORY

\* C6: once a document was loaded or created (an existing file with no line
\* and a failed load included), every state has at least one line.
C6_AtLeastOneLine == Defined(E) => num_lines(E) >= 1

\* C7: after every handled key the cursor row is between 0 and the line
\* count; on an existing line the column is between 0 and that line's size,
\* and on the row past the last line the column is 0.
C7_CursorInDocument ==
    Defined(E) =>
        /\ 0 <= E.cursor_y /\ E.cursor_y <= num_lines(E)
        /\ 0 <= E.cursor_x
        /\ E.cursor_y < num_lines(E) => E.cursor_x <= size(E, E.cursor_y)
        /\ E.cursor_y = num_lines(E) => E.cursor_x = 0

\* the keys and commands C8 lists (replace has no key that reaches it)
C8_Keys == {"char", "KEY_BACKSPACE", "KEY_DC", "KEY_ENTER", "CTRL_X", "CTRL_P"}
C8_Commands == {<<"D", "U">>, <<"D", "L">>, <<"U", "L">>, <<"L", "L">>}

\* C8: every key or command that changes the document's text (a printable
\* character, Backspace, Delete inside a line or at its end, Enter, paste,
\* cut, duplicate, delete line, case change) pushes an undo action.
C8_EveryEditIsRecorded ==
    [][(/\ Defined(E')
        /\ TextOf(E') /= TextOf(E)
        /\ \/ last_key' \in C8_Keys
           \/ /\ last_key' = "CMD_ENTER"
              /\ \E q \in C8_Commands : strcasecmp0(E.cmd_sequence, q)) =>
           IsPush(E.undo_history, E'.undo_history)]_vars

\* the ranges (sy, sx) .. (ey, ex) inside the document that are normalized
\* and not empty
Ranges(s) ==
    {r \in [sy : 0..(num_lines(s) - 1), sx : 0..MaxLineLen,
            ey : 0..(num_lines(s) - 1), ex : 0..MaxLineLen] :
        /\ r.sx <= size(s, r.sy)
        /\ r.ex <= size(s, r.ey)
        /\ \/ r.sy < r.ey
           \/ r.sy = r.ey /\ r.sx < r.ex}

\* get_selection_content, editor_delete_text_block and then
\* editor_insert_text_block of the text at the start of the range
BlockRoundTrip(s, r) ==
    LET sel == get_selection_content(s, r.sy, r.sx, r.ey, r.ex)
        deleted == editor_delete_text_block(s, r.sy, r.sx, r.ey, r.ex)
    IN  editor_insert_text_block(deleted, r.sy, r.sx, sel.text)

\* C9: for every normalized non-empty range inside the document, taking the
\* text of the range, deleting the range and inserting the text at the start
\* of the range gives back the document, line for line, whether or not
\* lines follow the end row.
C9_DeleteThenInsertRestores ==
    Defined(E) =>
        \A r \in Ranges(E) :
            /\ Defined(BlockRoundTrip(E, r))
            /\ TextOf(BlockRoundTrip(E, r)) = TextOf(E)

\* lines 2 to 4 are selected entirely in visual mode: from the start of
\* line 2 to the end of line 4
SelectedLines2To4(s) ==
    /\ s.visual_mode
    /\ num_lines(s) >= 5
    /\ LET c == get_normalized_selection_coords(s)
       IN  /\ c.sy = 1 /\ c.sx = 0
           /\ \/ c.ey = 3 /\ c.ex = size(s, 3)
              \/ c.ey = 4 /\ c.ex = 0

\* C10: in a document of at least 5 lines with lines 2 to 4 selected
\* entirely in visual mode, cut and then paste gives the original document.
C10_CutThenPasteRestores ==
    (Defined(E) /\ ~E.cmd_active /\ SelectedLines2To4(E)) =>
        LET pasted == editor_paste_line(editor_cut_selection(E))
        IN  Defined(pasted) /\ TextOf(pasted) = TextOf(E)

\* the cursor is on an existing line, at a column inside it or at its end
CursorOnLine(s) ==
    /\ ValidRow(s, s.cursor_y)
    /\ 0 <= s.cursor_x /\ s.cursor_x <= size(s, s.cursor_y)

\* C11: for every line and every column c in [0, size], c = 0 included,
\* Enter with the cursor at (row, c) followed at once by Backspace gives a
\* document with the original line count in which line row has its original
\* content and length (every other line is unchanged too).
C11_EnterThenBackspaceRestores ==
    [][(last_key' = "KEY_ENTER" /\ CursorOnLine(E) /\ Defined(E')) =>
          LET joined == editor_delete_char(E')
          IN  /\ Defined(joined)
              /\ num_lines(joined) = num_lines(E)
              /\ chars(joined, E.cursor_y) = chars(E, E.cursor_y)
              /\ size(joined, E.cursor_y) = size(E, E.cursor_y)
              /\ TextOf(joined) = TextOf(E)]_vars

\* the file "ab" after Right, Enter and Backspace: the split at column 1 and
\* the join at column 1 are the two entries of the undo history
C11_Witness ==
    /\ E.filename = "one"
    /\ last_key = "KEY_BACKSPACE"
    /\ Len(E.undo_history) = 2
    /\ E.undo_history[1].type = "UNDO_SPLIT_LINE"
    /\ E.undo_history[2].type = "UNDO_JOIN_LINES"
    /\ E.undo_history[1].x = 1 /\ E.undo_history[2].x = 1
    /\ TextOf(E) = FileSystem["one"]

\* the state with the selection made in the other direction: the anchor
\* where the cursor is and the cursor where the anchor is
SwapEnds(s) ==
    [s EXCEPT !.visual_start_y = s.cursor_y, !.visual_start_x = s.cursor_x,
              !.cursor_y = s.visual_start_y, !.cursor_x = s.visual_start_x]

\* C12: selection normalization does not depend on the direction: with the
\* anchor at a and the cursor at b, get_normalized_selection_coords returns
\* the same (start, end) as with the anchor at b and the cursor at a, and
\* start <= end in document order (row first, then column).
C12_NormalizeIsSymmetric ==
    (Defined(E) /\ E.visual_mode) =>
        LET n == get_normalized_selection_coords(E)
            m == get_normalized_selection_coords(SwapEnds(E))
        IN  /\ n = m
            /\ \/ n.sy < n.ey
               \/ n.sy = n.ey /\ n.sx <= n.ex

\* a selection made backwards: the cursor was moved to a row above the
\* anchor and to another column
C12_Witness ==
    /\ E.visual_mode
    /\ E.cursor_y < E.visual_start_y
    /\ E.cursor_x > E.visual_start_x
    /\ get_normalized_selection_coords(E).sy = E.cursor_y
    /\ get_normalized_selection_coords(E).ey = E.visual_start_y

\* the two characters a, b stand at index i of the line (0-based)
HasAt(cs, i, a, b) == i + 1 < Len(cs) /\ cs[i + 1] = a /\ cs[i + 2] = b
\* the line holds the two characters a, b somewhere
Contains(cs, a, b) == \E i \in 0..(Len(cs) - 2) : HasAt(cs, i, a, b)

\* a block comment is opened at column p of line k, outside any string or
\* comment (nothing before it opens one), and its closing marker first
\* appears on line k + 2
OpenedAndClosedTwoLinesOn(s, k, p) ==
    /\ k + 2 < num_lines(s)
    /\ \A y \in 0..(k - 1) : \A i \in 1..size(s, y) :
           chars(s, y)[i] \notin {SQUOTE, DQUOTE, BACKTICK, "/"}
    /\ HasAt(chars(s, k), p, "/", "*")
    /\ \A i \in 1..p : chars(s, k)[i] \notin {SQUOTE, DQUOTE, BACKTICK, "#", "/"}
    /\ \A i \in (p + 2)..(size(s, k) - 2) : ~HasAt(chars(s, k), i, "*", "/")
    /\ ~Contains(chars(s, k + 1), "*", "/")
    /\ Contains(chars(s, k + 2), "*", "/")

RECURSIVE TypeCommand(_, _)
TypeCommand(s, seq) ==
    IF seq = <<>> THEN s
    ELSE TypeCommand(handle_command_mode_input(s, Head(seq), FALSE, NoAnswers),
                     Tail(seq))

\* C14: in command mode with a non-empty collected sequence s, the bind key
\* and an action name a record a macro whose sequence is s and whose action
\* is a; afterwards activating command mode, typing s and committing
\* executes a and does not report an unknown command.
C14_BoundMacroRuns ==
    [][(/\ last_key' = "CMD_BIND"
        /\ Len(E.cmd_sequence) > 0
        /\ Len(E.macros) < MAX_MACROS) =>
           /\ Len(E'.macros) = Len(E.macros) + 1
           /\ E'.macros[Len(E'.macros)].sequence = E.cmd_sequence
           /\ E'.macros[Len(E'.macros)].action \in ActionNames
           /\ execute_command_sequence(
                  TypeCommand(CommandModeKey(E'), E.cmd_sequence),
                  NoAnswers).status /= "Unknown command."]_vars

\* the positions (row, column) where query occurs in the document
Occurrences(s, query) ==
    {p \in (0..(num_lines(s) - 1)) \X (0..MaxLineLen) :
        MatchAt(chars(s, p[1]), p[2], query)}

\* query occurs in the document, and only at positions before the cursor
OnlyBeforeCursor(s, query) ==
    /\ Occurrences(s, query) /= {}
    /\ \A p \in Occurrences(s, query) :
           \/ p[1] < s.cursor_y
           \/ (p[1] = s.cursor_y /\ p[2] < s.cursor_x)

\* C15: when the query occurs in the document only at positions before the
\* cursor, find (editor_find, which runs editor_find_next) leaves the cursor
\* on an occurrence of the query and the status says the search wrapped from
\* the beginning
C15_FindWrapsToEarlierMatch ==
    Defined(E) =>
        \A query \in Queries :
            OnlyBeforeCursor(E, query) =>
                LET found == editor_find(E, query)
                IN  /\ Defined(found)
                    /\ <<found.cursor_y, found.cursor_x>>
                           \in Occurrences(found, query)
                    /\ found.status
                           = "Found '(query)' (wrapped from beginning)"

\* r is the state a search for an absent query must leave from s: cursor
\* and document as they were, not found reported, search inactive, and a
\* find-next after it reports that no search is active and moves nothing
SearchFailed(s, r) ==
    /\ Defined(r)
    /\ r.cursor_y = s.cursor_y /\ r.cursor_x = s.cursor_x
    /\ r.lines = s.lines
    /\ r.status = "'(query)' not found."
    /\ ~r.search_active
    /\ LET again == editor_find_next(r)
       IN  /\ again.status
                  = "No active search. Use Ctrl+F to start a new search."
           /\ again.cursor_y = s.cursor_y /\ again.cursor_x = s.cursor_x
           /\ again.lines = s.lines

\* a search is active for a query that the document does not hold
ActiveForAbsentQuery(s) ==
    /\ s.search_active
    /\ s.last_search_query /= <<>>
    /\ Occurrences(s, s.last_search_query) = {}

\* C16: when the query occurs nowhere in the document, find-next (run by a
\* new search or on the active one) and find-previous leave the cursor where
\* it was, report not found, mark the search inactive and leave the document
\* unchanged; a find-next after that reports that no search is active and
\* does not move the cursor
C16_AbsentQueryMovesNothing ==
    Defined(E) =>
        /\ \A query \in Queries :
               Occurrences(E, query) = {} =>
                   SearchFailed(E, editor_find(E, query))
        /\ ActiveForAbsentQuery(E) =>
               /\ SearchFailed(E, editor_find_next(E))
               /\ SearchFailed(E, editor_find_prev(E))

\* C17: Ctrl+Z with an empty undo log and Ctrl+Y with an empty redo log
\* change nothing but the status message: document, line count, cursor,
\* both logs and the modified flag stay as they were
C17_EmptyLogIsNoOp ==
    [][/\ (last_key' = "CTRL_Z" /\ Len(E.undo_history) = 0) =>
              E' = [E EXCEPT !.status = "Nothing to undo."]
       /\ (last_key' = "CTRL_Y" /\ Len(E.redo_history) = 0) =>
              E' = [E EXCEPT !.status = "Nothing to redo."]]_vars

\* Ctrl+Z was pressed on an empty undo log, in a modified document whose
\* edits were all undone before and wait in the redo log
C17_Witness ==
    /\ last_key = "CTRL_Z"
    /\ E.status = "Nothing to undo."
    /\ Len(E.undo_history) = 0
    /\ Len(E.redo_history) > 0
    /\ E.dirty

\* C18: in every reachable state, command mode inactive implies that the
\* collected command sequence is empty
C18_InactiveMeansEmptySequence ==
    ~E.cmd_active => Len(E.cmd_sequence) = 0

\* a macro was bound from a non-empty sequence, through the prompt opened
\* from command mode, and the machine is inactive again
C18_Witness ==
    /\ last_key = "CMD_BIND"
    /\ Len(E.macros) > 0
    /\ ~E.cmd_active

\* C19: Backspace in command mode removes the last character of the
\* collected sequence, and when the sequence had length 1 (it is empty
\* afterwards) command mode is inactive right after that key
C19_BackspaceToEmptyLeavesCommandMode ==
    [][(last_key' = "CMD_BACKSPACE" /\ Len(E.cmd_sequence) > 0) =>
           /\ E'.cmd_sequence
                  = Take(E.cmd_sequence, Len(E.cmd_sequence) - 1)
           /\ (Len(E.cmd_sequence) = 1 => ~E'.cmd_active)]_vars

\* C20: a key that arrives in command mode after the timeout leaves the
\* machine inactive with an empty sequence and changes nothing else but the
\* status message: it is not appended, no command runs, no edit is made
C20_LateKeyOnlyResets ==
    [][last_key' = "CMD_LATE" =>
           /\ ~E'.cmd_active
           /\ E'.cmd_sequence = <<>>
           /\ E' = [E EXCEPT !.cmd_active = FALSE, !.cmd_sequence = <<>>,
                             !.status = E'.status]]_vars

\* the committed sequence of s matches no built-in command and no macro:
\* execute_command_sequence ends in its last branch
Unmatched(s) ==
    /\ Len(s.cmd_sequence) > 0
    /\ execute_command_sequence(s, NoAnswers).status = "Unknown command."

\* C21: when Enter commits a sequence that matches no built-in and no macro,
\* the status message the handler leaves is the unknown-command report, and
\* when a key arrives and the timeout comparison is true it is the timeout
\* report
C21_CommandFailureIsReported ==
    (Defined(E) /\ E.cmd_active) =>
        /\ Unmatched(E) =>
               handle_command_mode_input(E, "\n", FALSE, NoAnswers).status
                   = "Unknown command."
        /\ \A key \in {"\n", "\t", "KEY_BACKSPACE", "ESC", "a"} :
               handle_command_mode_input(E, key, TRUE, NoAnswers).status
                   = "Command timeout."

\* r holds the document, cursor and undo log of s
Unmutated(s, r) ==
    /\ Defined(r)
    /\ r.lines = s.lines
    /\ r.cursor_y = s.cursor_y /\ r.cursor_x = s.cursor_x
    /\ r.undo_history = s.undo_history

\* the line under the cursor is full: one more character needs a larger
\* buffer
CursorLineIsFull(s) ==
    /\ ValidRow(s, s.cursor_y)
    /\ s.cursor_x <= size(s, s.cursor_y)
    /\ size(s, s.cursor_y) + 2 > allocated(s, s.cursor_y)

\* C22: when the allocation fails, typing a character into a full line and
\* inserting a line at any row leave line contents, line order, line count,
\* cursor and undo log as they were before the call
C22_FailedAllocationChangesNothing ==
    Defined(E) =>
        /\ CursorLineIsFull(E) =>
               \A c \in Alphabet :
                   Unmutated(E, editor_insert_char(NoMemory(E), c))
        /\ \A at \in 0..num_lines(E) :
               Unmutated(E, editor_insert_line(NoMemory(E), at, <<"a">>))

\* the recent-files list of s, most recent first
RecentList(s) == SubSeq(s.recent_files, 1, s.num_recent_files)

\* list without the entries equal to path
Without(list, path) == SelectSeq(list, LAMBDA p : p /= path)

\* the most-recently-used order after path was loaded, truncated
MostRecentFirst(list, path) ==
    Take(<<path>> \o Without(list, path),
         Min(MAX_RECENT_FILES, 1 + Len(Without(list, path))))

\* C23: after every successful load the recent-files list is the
\* most-recently-used order of the loaded paths, truncated to
\* MAX_RECENT_FILES: the loaded path first, then the earlier list without
\* it; every entry is a real path and none occurs twice
C23_RecentFilesAreMostRecentFirst ==
    [][(last_key' = "CTRL_O" /\ E'.filename \in DOMAIN FileSystem) =>
           /\ RecentList(E') = MostRecentFirst(RecentList(E), E'.filename)
           /\ \A i \in 1..Len(RecentList(E')) :
                  /\ RecentList(E')[i] \in DOMAIN FileSystem
                  /\ \A j \in 1..Len(RecentList(E')) :
                         RecentList(E')[i] = RecentList(E')[j] => i = j]_vars

\* C24: no two entries of the macro table have the same sequence
C24_MacroSequencesAreDistinct ==
    Defined(E) =>
        \A i, j \in 1..Len(E.macros) :
            E.macros[i].sequence = E.macros[j].sequence => i = j

\* C25: every line's capacity is at least its size plus one
C25_CapacityHoldsContent ==
    E.ub \in {"none", "col"} =>
        \A y \in 0..(num_lines(E) - 1) : allocated(E, y) >= size(E, y) + 1

\* the code file with the single line Statement, the cursor at its end
AtEndOfStatement(s) ==
    /\ s.is_code_file
    /\ TextOf(s) = <<Statement>>
    /\ s.cursor_y = 0 /\ s.cursor_x = Len(Statement)

\* the tags the refresh gives the first line of t
FirstLineTags(t) == editor_refresh_screen(t)[1]

\* t holds the statement and the note on one line, and the columns from..17
\* of it are tagged Comment, the columns of "int" Keyword
NoteIsComment(t, from) ==
    /\ Defined(t)
    /\ TextOf(t) = <<Statement \o Note>>
    /\ \A k \in from..(Len(Statement) + Len(Note)) :
           FirstLineTags(t)[k] = "HL_COMMENT"
    /\ \A k \in 1..3 : FirstLineTags(t)[k] = "HL_KEYWORD"

\* C26 as stated: typing the 8 characters of the note at the end of the
\* statement gives the line 'int x = 1; // note', every character of the
\* typed ' // note' is tagged Comment and the three of 'int' Keyword
C26_NoteIsCommentFromTheSpace ==
    (Defined(E) /\ AtEndOfStatement(E)) =>
        NoteIsComment(TypeAll(E, Note), Len(Statement) + 1)

\* C26, amended: typing the 8 characters of the note at the end of the
\* statement gives the line 'int x = 1; // note'; the characters from the
\* comment marker on ('// note') are tagged Comment, the space typed before
\* the marker is tagged Normal, and the three of 'int' Keyword
C26_NoteIsCommentFromTheMarker ==
    (Defined(E) /\ AtEndOfStatement(E)) =>
        /\ NoteIsComment(TypeAll(E, Note), Len(Statement) + 2)
        /\ FirstLineTags(TypeAll(E, Note))[Len(Statement) + 1] = "HL_NORMAL"

\* the note was typed key by key at the end of the statement
C26_Witness ==
    /\ E.is_code_file
    /\ last_key = "char"
    /\ nkeys = 0
    /\ TextOf(E) = <<Statement \o Note>>
    /\ E.cursor_x = Len(Statement) + Len(Note)
    /\ FirstLineTags(E)[Len(Statement) + 1] = "HL_NORMAL"
    /\ FirstLineTags(E)[Len(Statement) + 2] = "HL_COMMENT"
    /\ FirstLineTags(E)[1] = "HL_KEYWORD"

\* seq is a prefix of command, letter case apart
IsPrefixNoCase(seq, command) ==
    /\ Len(seq) <= Len(command)
    /\ \A i \in 1..Len(seq) : tolower(seq[i]) = tolower(command[i])

\* the first command of the table that seq is a prefix of, seq itself when
\* there is none
Completion(seq) ==
    LET starts == {i \in 1..Len(AutocompleteCommands) :
                      IsPrefixNoCase(seq, AutocompleteCommands[i])}
    IN  IF starts = {} THEN seq
        ELSE AutocompleteCommands[CHOOSE i \in starts :
                                      \A j \in starts : i <= j]

\* document, cursor, clipboard, logs and macro table of r are those of s
NothingExecuted(s, r) ==
    /\ r.lines = s.lines
    /\ r.cursor_y = s.cursor_y /\ r.cursor_x = s.cursor_x
    /\ r.clipboard = s.clipboard
    /\ r.undo_history = s.undo_history /\ r.redo_history = s.redo_history
    /\ r.macros = s.macros
    /\ r.dirty = s.dirty /\ r.exited = s.exited

\* C27: Tab in command mode replaces the collected sequence by the first
\* command in table order that it is a prefix of, letter case apart, and
\* leaves it unchanged when there is none; it executes nothing (document,
\* cursor and logs unchanged, the machine still collecting), and a second
\* Tab changes nothing more.
C27_AutocompleteCompletesOnly ==
    [][last_key' = "CMD_TAB" =>
           /\ E'.cmd_sequence = Completion(E.cmd_sequence)
           /\ E'.cmd_active
           /\ NothingExecuted(E, E')
           /\ handle_command_mode_input(E', "\t", FALSE, NoAnswers) = E']_vars

\* Tab after q was typed: the machine holds QW and is still collecting
C27_Witness ==
    /\ last_key = "CMD_TAB"
    /\ E.cmd_active
    /\ E.cmd_sequence = <<"Q", "W">>
    /\ E.status = "Command Mode: (sequence)"
    /\ ~E.exited

\* document, cursor, clipboard and the two logs of r are those of s
DocumentUntouched(s, r) ==
    /\ r.lines = s.lines
    /\ r.cursor_y = s.cursor_y /\ r.cursor_x = s.cursor_x
    /\ r.clipboard = s.clipboard
    /\ r.undo_history = s.undo_history /\ r.redo_history = s.redo_history

\* C28: while command mode is active, a printable key (the bind key ':'
\* included), Tab and Backspace that arrive within the timeout change
\* neither the document content, the line count, the cursor, the clipboard,
\* the undo log nor the redo log.
C28_CollectingLeavesDocument ==
    [][(/\ E.cmd_active
        /\ last_key' \in {"CMD_CHAR", "CMD_TAB", "CMD_BACKSPACE", "CMD_BIND",
                          "CMD_BIND_ESC"}) =>
           DocumentUntouched(E, E')]_vars

\* a character was typed into the document, then command mode collected QW
\* and Backspace took the W away
C28_Witness ==
    /\ last_key = "CMD_BACKSPACE"
    /\ E.cmd_active
    /\ E.cmd_sequence = <<"Q">>
    /\ Len(E.undo_history) = 1
    /\ E.cursor_x = 1

\* the texts inserted as blocks: no, one and two newlines
Blocks == {<<"b">>, <<"b", NL, "a">>, <<NL>>, <<"a", NL, NL, "b">>}

\* the number of newlines of text
Newlines(text) == Cardinality({i \in 1..Len(text) : text[i] = NL})

\* the part of text after its last newline
AfterLastNewline(text) ==
    LET nls == {i \in 1..Len(text) : text[i] = NL}
    IN  IF nls = {} THEN text
        ELSE Drop(text, CHOOSE i \in nls : \A j \in nls : j <= i)

\* r is s with k lines more: the lines before row are the same, the lines
\* after row are the same k rows further down, and line row + k ends with
\* the part of line row that stood after column col, directly after the
\* last segment of text
BlockInserted(s, r, row, col, text, k) ==
    /\ Defined(r)
    /\ num_lines(r) = num_lines(s) + k
    /\ \A y \in 0..(row - 1) : chars(r, y) = chars(s, y)
    /\ \A y \in (row + 1)..(num_lines(s) - 1) : chars(r, y + k) = chars(s, y)
    /\ ValidRow(r, row + k)
    /\ chars(r, row + k) =
           (IF k = 0 THEN Take(chars(s, row), col) ELSE <<>>)
               \o AfterLastNewline(text) \o Drop(chars(s, row), col)

\* C29: editor_insert_text_block(row, col, text) with a text of k newlines
\* makes the line count greater by exactly k, leaves every line other than
\* row as it was (the lines after row k rows further down), and puts the
\* displaced remainder of line row directly after the last inserted segment.
C29_BlockInsertAddsItsLines ==
    Defined(E) =>
        \A row \in 0..(num_lines(E) - 1) : \A col \in 0..size(E, row) :
            \A text \in Blocks :
                BlockInserted(E, editor_insert_text_block(E, row, col, text),
                              row, col, text, Newlines(text))

\* on the line cs a block comment is opened at index p, outside any string
\* or comment, and closed at index q of the same line (0-based, the first
\* closing marker after the opener); nothing after the closer opens a
\* string or a comment
OpenedAndClosedAt(cs, p, q) ==
    /\ HasAt(cs, p, "/", "*")
    /\ \A i \in 1..p : cs[i] \notin {SQUOTE, DQUOTE, BACKTICK, "/", "#"}
    /\ q >= p + 2
    /\ HasAt(cs, q, "*", "/")
    /\ \A i \in (p + 2)..(q - 1) : ~HasAt(cs, i, "*", "/")
    /\ \A i \in (q + 3)..Len(cs) :
           cs[i] \notin {SQUOTE, DQUOTE, BACKTICK, "/", "#"}

\* the tags hl of the characters of cs after the closer at index q: no
\* Comment; whitespace Normal, letters Normal or Keyword
TailIsOrdinary(cs, hl, q) ==
    \A i \in (q + 3)..Len(cs) :
        /\ hl[i] /= "HL_COMMENT"
        /\ isspace(cs[i]) => hl[i] = "HL_NORMAL"
        /\ isalpha(cs[i]) => hl[i] \in {"HL_NORMAL", "HL_KEYWORD"}

\* C30: in a code file, on a line where a block comment is opened and closed
\* on that same line, only the characters from the opener through the
\* closer are tagged Comment because of it: whitespace and words after the
\* closer are tagged Normal (or Keyword, Operator, Number by the ordinary
\* rules), and the block-comment state leaving the line is false.
C30_CommentEndsAtItsCloser ==
    (Defined(E) /\ E.is_code_file /\ num_lines(E) > 0) =>
        \A p \in 0..(size(E, 0) - 2) : \A q \in 0..(size(E, 0) - 2) :
            OpenedAndClosedAt(chars(E, 0), p, q) =>
                /\ TailIsOrdinary(chars(E, 0), FirstLineTags(E), q)
                /\ \A i \in (p + 1)..(q + 2) :
                       FirstLineTags(E)[i] = "HL_COMMENT"
                /\ ~update_highlighting(chars(E, 0), FALSE, TRUE)
                        .in_multiline_comment_global

\* one undo after the operation gave t restores the text of s
UndoRestores(s, t) ==
    /\ Defined(t)
    /\ Defined(editor_undo(t))
    /\ TextOf(editor_undo(t)) = TextOf(s)

\* C31: for each whole-line operation (duplicate line, cut line without a
\* selection, the delete-line command DL), the operation followed by one
\* undo restores the document: same line count, same content on every line.
C31_UndoRestoresWholeLineOperation ==
    (Defined(E) /\ ValidRow(E, E.cursor_y)) =>
        /\ UndoRestores(E, editor_duplicate_line(E))
        /\ UndoRestores(E, editor_cut_line(E))
        /\ num_lines(E) > 1 => UndoRestores(E, DeleteLineCommand(E))

\* u is s again: the text, the line count and the cursor
RestoredWithCursor(s, u) ==
    /\ Defined(u)
    /\ TextOf(u) = TextOf(s)
    /\ u.cursor_y = s.cursor_y /\ u.cursor_x = s.cursor_x

\* the entry the paste p of the clipboard of s left on top of the undo log
\* describes the pasted block: its start, and an end at row + line count - 1
\* with the column the claim names
PasteIsRecorded(s, p) ==
    /\ Defined(p)
    /\ Len(p.undo_history) > 0
    /\ LET ua == p.undo_history[Len(p.undo_history)]
       IN  /\ ua.type = "UNDO_INSERT_BLOCK"
           /\ ua.y = s.cursor_y /\ ua.x = s.cursor_x
           /\ ua.y + ua.num_lines_affected - 1 = s.cursor_y + Newlines(s.clipboard)
           /\ BlockEndX(ua) = IF Newlines(s.clipboard) = 0
                              THEN s.cursor_x + Len(s.clipboard)
                              ELSE Len(AfterLastNewline(s.clipboard))

\* C32: pasting a clipboard text with any number of newlines at any cursor
\* position and then one undo restores the content and the line count of
\* before the paste and puts the cursor back at the paste position; the
\* block the undo deletes ends at row + line count - 1, at the column that
\* is the length of the text's last segment (several lines) or the start
\* column plus the text's length (one line).
C32_UndoRestoresPaste ==
    (/\ Defined(E)
     /\ Len(E.clipboard) > 0
     /\ ValidRow(E, E.cursor_y)
     /\ E.cursor_x <= size(E, E.cursor_y)) =>
        /\ PasteIsRecorded(E, editor_paste_line(E))
        /\ RestoredWithCursor(E, editor_undo(editor_paste_line(E)))

\* cs with the occurrence of find at column x replaced
WithReplaced(cs, x, find, replace) ==
    Take(cs, x) \o replace \o Drop(cs, x + Len(find))

\* the contents the line cs has just before each of its replacements, in
\* order: the occurrences are taken from left to right, each search going
\* on behind the text the replacement before it put in
RECURSIVE ContentsBefore(_, _, _, _)
ContentsBefore(cs, from, find, replace) ==
    IF strstr(cs, from, find) = -1 THEN <<>>
    ELSE <<cs>> \o ContentsBefore(
                       WithReplaced(cs, strstr(cs, from, find), find, replace),
                       strstr(cs, from, find) + Len(replace), find, replace)

\* one undo entry per replaced occurrence of the rows y .. last of s, each
\* with the full content its line had just before that replacement
RECURSIVE ReplaceEntries(_, _, _, _)
ReplaceEntries(s, y, find, replace) ==
    IF y >= num_lines(s) THEN <<>>
    ELSE [k \in 1..Len(ContentsBefore(chars(s, y), 0, find, replace)) |->
              UndoAction("UNDO_MODIFY_LINE_CASE", y, 0, NUL,
                         ContentsBefore(chars(s, y), 0, find, replace)[k],
                         Len(ContentsBefore(chars(s, y), 0, find, replace)[k]),
                         1)]
             \o ReplaceEntries(s, y + 1, find, replace)

\* the newest n entries of log
Newest(log, n) == Drop(log, Max(0, Len(log) - n))

\* t is s after a find-and-replace that pushed the entries expected: the
\* log of t ends with them, and as many undos as there are entries restore
\* every line when the log holds that many
ReplaceIsUndone(s, t, expected) ==
    /\ Defined(t)
    /\ t.undo_history =
           Newest(s.undo_history \o expected, MAX_UNDO_HISTORY)
    /\ Len(expected) <= MAX_UNDO_HISTORY =>
           /\ Defined(UndoTimes(t, Len(expected)))
           /\ TextOf(UndoTimes(t, Len(expected))) = TextOf(s)

\* C33: find-and-replace pushes exactly one undo entry per replaced
\* occurrence, each holding the full content the line had just before that
\* replacement (m occurrences in one line give m entries), and for m up to
\* the capacity of the undo history m consecutive undos restore every line
\* to its content of before the replace.
C33_ReplaceIsUndoneStepByStep ==
    Defined(E) =>
        \A find \in Finds : \A replace \in Replacements :
            ReplaceIsUndone(E, editor_find_replace(E, find, replace),
                            ReplaceEntries(E, 0, find, replace))

\* a find-and-replace has replaced two occurrences of one line: the two
\* newest entries hold the line before the first and before the second
\* replacement, and two undos give the line back
C33_Witness ==
    /\ last_key = "REPLACE"
    /\ Len(E.undo_history) >= 2
    /\ LET top == E.undo_history[Len(E.undo_history)]
           below == E.undo_history[Len(E.undo_history) - 1]
       IN  /\ top.type = "UNDO_MODIFY_LINE_CASE"
           /\ below.type = "UNDO_MODIFY_LINE_CASE"
           /\ top.y = below.y
           /\ top.text_content /= below.text_content
           /\ Defined(UndoTimes(E, 2))
           /\ chars(UndoTimes(E, 2), top.y) = below.text_content
           /\ chars(E, top.y) /= below.text_content

\* the columns of cs where find occurs
OccurrencesIn(cs, find) == {x \in 0..Len(cs) : MatchAt(cs, x, find)}

\* the occurrences of find in cs taken from left to right from column x on,
\* each one starting behind the end of the one taken before it
RECURSIVE DisjointOccurrences(_, _, _)
DisjointOccurrences(cs, x, find) ==
    IF x + Len(find) > Len(cs) THEN {}
    ELSE IF MatchAt(cs, x, find)
    THEN {x} \cup DisjointOccurrences(cs, x + Len(find), find)
    ELSE DisjointOccurrences(cs, x + 1, find)

\* cs from column x on with each of these occurrences replaced, read off
\* the text of before alone
RECURSIVE EachReplacedOnce(_, _, _, _)
EachReplacedOnce(cs, x, find, replace) ==
    IF x >= Len(cs) THEN <<>>
    ELSE IF MatchAt(cs, x, find)
    THEN replace \o EachReplacedOnce(cs, x + Len(find), find, replace)
    ELSE <<cs[x + 1]>> \o EachReplacedOnce(cs, x + 1, find, replace)

RECURSIVE SumOver(_, _)
SumOver(f, n) == IF n = 0 THEN 0 ELSE f[n] + SumOver(f, n - 1)

\* the loops of editor_find_replace end and have replaced the occurrences
\* counted by count, each once, and nothing in the text they put in
ReplacesOnce(s, find, replace, count) ==
    LET r == ReplaceLoop(s, 0, 0, find, replace, MaxReplacePasses)
    IN  /\ r.finished
        /\ Defined(r.st)
        /\ r.replacements_made = SumOver(count, num_lines(s))
        /\ count = [i \in 1..num_lines(s) |-> 0] => TextOf(r.st) = TextOf(s)

C34_RowsAreInsideDocument == E.ub /= "row"

\* the size of every line of s counts bytes of its text only
SizeIsTextLength(s) ==
    \A i \in 1..num_lines(s) :
        \A k \in 1..Len(s.lines[i].chars) :
            s.lines[i].chars[k] /= INDETERMINATE

\* the block delete that takes back the block action a removes, in the
\* lines of s, no more characters than they hold
BlockDeleteFits(s, a) ==
    Defined(editor_delete_text_block(s, a.y, a.x,
                a.y + a.num_lines_affected - 1, BlockEndX(a)))

\* the newest entry of log is of this type
NewestIs(log, type) == Len(log) > 0 /\ log[Len(log)].type = type

\* C35: in every reachable state every line's size is >= 0 and equals the
\* length of the text stored for that line, and the block delete an undo or
\* a redo is about to do never removes more characters than the line holds.
C35_SizeIsTextLength ==
    /\ SizeIsTextLength(E)
    /\ Defined(E) /\ NewestIs(E.undo_history, "UNDO_INSERT_BLOCK") =>
           BlockDeleteFits(E, E.undo_history[Len(E.undo_history)])
    /\ Defined(E) /\ NewestIs(E.redo_history, "UNDO_DELETE_BLOCK") =>
           BlockDeleteFits(E, E.redo_history[Len(E.redo_history)])

\* C36: after every file load, successful or failed, the undo history and
\* the redo history are empty.
C36_LoadEmptiesHistories ==
    [][last_key' = "CTRL_O" =>
           E'.undo_history = <<>> /\ E'.redo_history = <<>>]_vars

\* C37: whenever an operation changes the text of the document (an edit, a
\* case change, a replace, duplicate, paste, cut, undo or redo; a load puts
\* another document in its place), the modified flag is true afterwards.
C37_ChangedTextIsModified ==
    [][(Defined(E') /\ last_key' /= "CTRL_O" /\ TextOf(E') /= TextOf(E))
           => E'.dirty]_vars

\* the cursor of t is at (y, x)
CursorAt(t, y, x) == Defined(t) /\ t.cursor_y = y /\ t.cursor_x = x

\* C38: a Backspace at column 0 of a line r > 0 joins line r onto line
\* r - 1 and leaves the cursor at the join point (row r - 1, column = the
\* length line r - 1 had before the join); so Enter at (row, c) followed by
\* Backspace returns the cursor to (row, c).
C38_BackspaceLeavesCursorAtJoin ==
    /\ (Defined(E) /\ E.cursor_x = 0 /\ E.cursor_y > 0
            /\ ValidRow(E, E.cursor_y)) =>
           CursorAt(editor_delete_char(E), E.cursor_y - 1,
                    size(E, E.cursor_y - 1))
    /\ (Defined(E) /\ CursorOnLine(E)) =>
           CursorAt(editor_delete_char(editor_insert_newline(E)),
                    E.cursor_y, E.cursor_x)

\* the letters of the command names, as typed without the shift key
CommandLetters ==
    {tolower(CharAt(AutocompleteCommands[i], k)) :
        i \in 1..Len(AutocompleteCommands), k \in 0..1} \ {NUL}

\* what the user has typed when Tab is pressed: nothing, one or two letters
TypedBeforeTab ==
    {<<>>} \cup {<<c>> : c \in CommandLetters}
           \cup {<<c, d>> : c \in CommandLetters, d \in CommandLetters}

\* the answers to the prompts of the committed command
CommitAnswers == {NoAnswers, [NoAnswers EXCEPT !.text = "1"]}

\* committing the sequence of s with Enter runs a command
Resolves(s) ==
    \A answers \in CommitAnswers :
        execute_command_sequence(s, answers).status /= "Unknown command."

\* Tab has put a command name in the place of the typed sequence
PlacedByTab(s1, typed) ==
    \E i \in 1..Len(AutocompleteCommands) :
        /\ s1.cmd_sequence = AutocompleteCommands[i]
        /\ strncasecmp0(AutocompleteCommands[i], typed)

\* C39: every command name that autocomplete can place in the collected
\* sequence resolves to a built-in command when it is committed with Enter:
\* committing a sequence produced by autocomplete never reports an unknown
\* command.
C39_CompletedNamesResolve ==
    (Defined(E) /\ ~E.exited /\ ~E.cmd_active /\ E.macros = <<>>) =>
        \A typed \in TypedBeforeTab :
            PlacedByTab(autocomplete_command(
                            TypeCommand(CommandModeKey(E), typed)), typed)
                => Resolves(autocomplete_command(
                                TypeCommand(CommandModeKey(E), typed)))

====
